---------------------------- MODULE Spec2Model ----------------------------
(***************************************************************************)
(* Model of the skyell URL crawler backend: the URL records and the crawl  *)
(* handlers (handlers/crawl.go, handlers/url.go) and the crawl engine      *)
(* (package crawler: CrawlURL, fetchAndAnalyze, walkNode, categorizeLink,  *)
(* isLoginForm, detectHTMLVersion, checkLinkAccessibility, isLinkBroken,   *)
(* saveLinks).                                                             *)
(*                                                                         *)
(* Go strings that the code inspects character by character (prefix,       *)
(* substring, lower-casing, URL parsing) are sequences of one-character    *)
(* strings; strings that are only stored or compared whole are TLA+        *)
(* strings.                                                                *)
(***************************************************************************)
EXTENDS Integers, Sequences, FiniteSets, TLC


\* --------------------------------------------------------------------
\* the string literals of the source, as character sequences

\* "#"
S_hash == <<"#">>

\* "javascript:"
S_javascript == <<"j", "a", "v", "a", "s", "c", "r", "i", "p", "t", ":">>

\* "password"
S_password == <<"p", "a", "s", "s", "w", "o", "r", "d">>

\* "user"
S_user == <<"u", "s", "e", "r">>

\* "email"
S_email == <<"e", "m", "a", "i", "l">>

\* "login"
S_login == <<"l", "o", "g", "i", "n">>

\* "<!doctype html>"
S_doctypeHtml5 == <<"<", "!", "d", "o", "c", "t", "y", "p", "e", " ", "h", "t", "m", "l", ">">>

\* "html 4.01"
S_html401 == <<"h", "t", "m", "l", " ", "4", ".", "0", "1">>

\* "xhtml 1.0"
S_xhtml10 == <<"x", "h", "t", "m", "l", " ", "1", ".", "0">>

\* "xhtml 1.1"
S_xhtml11 == <<"x", "h", "t", "m", "l", " ", "1", ".", "1">>

\* "<!doctype"
S_doctype == <<"<", "!", "d", "o", "c", "t", "y", "p", "e">>

\* "html"
S_html == <<"h", "t", "m", "l">>

(***************************************************************************)
(* package strings                                                         *)
(***************************************************************************)
UpperLetters == <<"A", "B", "C", "D", "E", "F", "G", "H", "I", "J", "K", "L", "M",
                  "N", "O", "P", "Q", "R", "S", "T", "U", "V", "W", "X", "Y", "Z">>

LowerLetters == <<"a", "b", "c", "d", "e", "f", "g", "h", "i", "j", "k", "l", "m",
                  "n", "o", "p", "q", "r", "s", "t", "u", "v", "w", "x", "y", "z">>

Digits == {"0", "1", "2", "3", "4", "5", "6", "7", "8", "9"}

IsUpper(c) == \E i \in DOMAIN UpperLetters : UpperLetters[i] = c

IsLetter(c) == IsUpper(c) \/ \E i \in DOMAIN LowerLetters : LowerLetters[i] = c

LowerChar(c) ==
  IF IsUpper(c)
    THEN LowerLetters[CHOOSE i \in DOMAIN UpperLetters : UpperLetters[i] = c]
    ELSE c

\* strings.ToLower
ToLower(s) == [i \in 1..Len(s) |-> LowerChar(s[i])]

\* strings.HasPrefix
HasPrefix(s, prefix) ==
  Len(s) >= Len(prefix) /\ SubSeq(s, 1, Len(prefix)) = prefix

\* strings.Contains
Contains(s, substr) ==
  \E i \in 0..(Len(s) - Len(substr)) : SubSeq(s, i + 1, i + Len(substr)) = substr

\* strings.Index, 1-based; 0 when c does not occur
IndexOf(s, c) ==
  IF \E i \in 1..Len(s) : s[i] = c
    THEN CHOOSE i \in 1..Len(s) : s[i] = c /\ \A j \in 1..(i - 1) : s[j] # c
    ELSE 0

\* strings.LastIndex, 1-based; 0 when c does not occur
LastIndexOf(s, c) ==
  IF \E i \in 1..Len(s) : s[i] = c
    THEN CHOOSE i \in 1..Len(s) : s[i] = c /\ \A j \in (i + 1)..Len(s) : s[j] # c
    ELSE 0

\* s[from:] with the 1-based index of its first character
From(s, from) == SubSeq(s, from, Len(s))

IsSpace(c) == c \in {" ", "\t", "\n", "\r"}

\* strings.TrimSpace
TrimSpace(s) ==
  IF \A i \in 1..Len(s) : IsSpace(s[i])
    THEN <<>>
    ELSE LET first == CHOOSE i \in 1..Len(s) :
                        ~IsSpace(s[i]) /\ \A j \in 1..(i - 1) : IsSpace(s[j])
             last  == CHOOSE i \in 1..Len(s) :
                        ~IsSpace(s[i]) /\ \A j \in (i + 1)..Len(s) : IsSpace(s[j])
         IN  SubSeq(s, first, last)

(***************************************************************************)
(* package net/url, as categorizeLink uses it: url.Parse,                  *)
(* URL.ResolveReference, URL.String.  A URL value is a record of its       *)
(* components.  Not modelled: user info, percent-escapes, dot segments     *)
(* ("." and "..") and control characters; the hrefs of the model contain   *)
(* none.                                                                   *)
(***************************************************************************)
EmptyURL ==
  [scheme |-> <<>>, opaque |-> <<>>, host |-> <<>>, path |-> <<>>,
   query |-> <<>>, forceQuery |-> FALSE, fragment |-> <<>>]

\* the first index at which url.getScheme stops scanning, 0 if it reads to the end
SchemeStop(rawURL) ==
  IF \E i \in 1..Len(rawURL) :
       \/ ~IsLetter(rawURL[i]) /\ rawURL[i] \notin Digits \cup {"+", "-", "."}
       \/ i = 1 /\ rawURL[i] \in Digits \cup {"+", "-", "."}
    THEN CHOOSE i \in 1..Len(rawURL) :
           /\ \/ ~IsLetter(rawURL[i]) /\ rawURL[i] \notin Digits \cup {"+", "-", "."}
              \/ i = 1 /\ rawURL[i] \in Digits \cup {"+", "-", "."}
           /\ \A j \in 2..(i - 1) : IsLetter(rawURL[j]) \/ rawURL[j] \in Digits \cup {"+", "-", "."}
           /\ i > 1 => IsLetter(rawURL[1])
    ELSE 0

\* url.getScheme, stopping at index i: <<ok, scheme, rest>>
GetSchemeAt(rawURL, i) ==
  IF i = 0 THEN <<TRUE, <<>>, rawURL>>
  ELSE IF rawURL[i] # ":" THEN <<TRUE, <<>>, rawURL>>
  ELSE IF i = 1 THEN <<FALSE, <<>>, <<>>>>       \* missing protocol scheme
  ELSE <<TRUE, SubSeq(rawURL, 1, i - 1), From(rawURL, i + 1)>>

\* url.getScheme
GetScheme(rawURL) == GetSchemeAt(rawURL, SchemeStop(rawURL))

\* url.parseAuthority / parseHost: a host holds no space
ValidHost(host) == \A i \in 1..Len(host) : host[i] # " "

\* url.parse from "//": rest begins with the authority; authEnd is the index of
\* the "/" that ends it in rest[2:], 0 if there is none
ParseAuthority(base, afterSlashes, authEnd) ==
  IF ValidHost(IF authEnd > 0 THEN SubSeq(afterSlashes, 1, authEnd - 1) ELSE afterSlashes)
    THEN [ok |-> TRUE,
          url |-> [base EXCEPT
                     !.host = IF authEnd > 0 THEN SubSeq(afterSlashes, 1, authEnd - 1)
                              ELSE afterSlashes,
                     !.path = IF authEnd > 0 THEN From(afterSlashes, authEnd) ELSE <<>>]]
    ELSE [ok |-> FALSE]         \* invalid character in host name

\* url.parse once scheme and query are cut off: base holds them, rest is
\* what is left, slash the index of its first "/"
ParseRest(base, rest, slash) ==
  IF ~HasPrefix(rest, <<"/">>) /\ base.scheme # <<>>
    THEN [ok |-> TRUE, url |-> [base EXCEPT !.opaque = rest]]
  ELSE IF ~HasPrefix(rest, <<"/">>)
            /\ IndexOf(IF slash > 0 THEN SubSeq(rest, 1, slash - 1) ELSE rest, ":") > 0
    THEN [ok |-> FALSE]         \* first path segment in URL cannot contain colon
  ELSE IF (base.scheme # <<>> \/ ~HasPrefix(rest, <<"/", "/", "/">>))
            /\ HasPrefix(rest, <<"/", "/">>)
    THEN ParseAuthority(base, From(rest, 3), IndexOf(From(rest, 3), "/"))
  ELSE [ok |-> TRUE, url |-> [base EXCEPT !.path = rest]]

\* url.parse after getScheme: the query is cut off at the first "?", at index q
ParseQuery(scheme, rest, q) ==
  IF q > 0
    THEN ParseRest([EmptyURL EXCEPT !.scheme = scheme, !.query = From(rest, q + 1),
                                    !.forceQuery = (q = Len(rest))],
                   SubSeq(rest, 1, q - 1), IndexOf(SubSeq(rest, 1, q - 1), "/"))
    ELSE ParseRest([EmptyURL EXCEPT !.scheme = scheme], rest, IndexOf(rest, "/"))

\* url.parse(rawURL, viaRequest = false) with the result gs of getScheme
ParseScheme(gs) ==
  IF ~gs[1] THEN [ok |-> FALSE] ELSE ParseQuery(ToLower(gs[2]), gs[3], IndexOf(gs[3], "?"))

\* url.parse(rawURL, viaRequest = false) on the part before the fragment:
\* [ok |-> TRUE, url |-> the URL] or [ok |-> FALSE]
ParseNoFragment(rawURL) ==
  IF rawURL = <<>> THEN [ok |-> TRUE, url |-> EmptyURL] ELSE ParseScheme(GetScheme(rawURL))

\* url.Parse with the index h of the first "#": the fragment is cut off
ParseAt(rawURL, h, p) ==
  IF p.ok
    THEN [ok |-> TRUE,
          url |-> [p.url EXCEPT !.fragment = IF h > 0 THEN From(rawURL, h + 1) ELSE <<>>]]
    ELSE p

\* url.Parse
Parse(rawURL) ==
  ParseAt(rawURL, IndexOf(rawURL, "#"),
          ParseNoFragment(IF IndexOf(rawURL, "#") > 0
                            THEN SubSeq(rawURL, 1, IndexOf(rawURL, "#") - 1)
                            ELSE rawURL))

\* url.resolvePath without dot segments: the result is rooted
Rooted(full) ==
  IF full = <<>> THEN <<>>
  ELSE IF full[1] = "/" THEN full ELSE <<"/">> \o full

ResolvePath(base, ref) ==
  Rooted(IF ref = <<>> THEN base
         ELSE IF ref[1] # "/" THEN SubSeq(base, 1, LastIndexOf(base, "/")) \o ref
         ELSE ref)

\* URL.ResolveReference once the scheme is set in url
ResolveInto(url, u, ref) ==
  IF ref.scheme # <<>> \/ ref.host # <<>>
    THEN [url EXCEPT !.path = ResolvePath(ref.path, <<>>)]
  ELSE IF ref.opaque # <<>>
    THEN [url EXCEPT !.host = <<>>, !.path = <<>>]
  ELSE IF ref.path = <<>> /\ u.opaque # <<>>
    THEN [url EXCEPT !.opaque = u.opaque, !.host = <<>>, !.path = <<>>,
                     !.query = IF ~ref.forceQuery /\ ref.query = <<>> THEN u.query ELSE @,
                     !.fragment = IF ~ref.forceQuery /\ ref.query = <<>> /\ @ = <<>>
                                    THEN u.fragment ELSE @]
  ELSE [url EXCEPT !.host = u.host, !.path = ResolvePath(u.path, ref.path),
                   !.query = IF ref.path = <<>> /\ ~ref.forceQuery /\ ref.query = <<>>
                               THEN u.query ELSE @,
                   !.fragment = IF ref.path = <<>> /\ ~ref.forceQuery /\ ref.query = <<>>
                                     /\ @ = <<>>
                                  THEN u.fragment ELSE @]

\* URL.ResolveReference
ResolveReference(u, ref) ==
  ResolveInto(IF ref.scheme = <<>> THEN [ref EXCEPT !.scheme = u.scheme] ELSE ref, u, ref)

\* URL.String
String(u) ==
  (IF u.scheme # <<>> THEN u.scheme \o <<":">> ELSE <<>>)
    \o (IF u.opaque # <<>> THEN u.opaque
        ELSE (IF (u.scheme # <<>> \/ u.host # <<>>) /\ (u.host # <<>> \/ u.path # <<>>)
                THEN <<"/", "/">> \o u.host ELSE <<>>)
             \o (IF u.path # <<>> /\ u.path[1] # "/" /\ u.host # <<>> THEN <<"/">> ELSE <<>>)
             \o u.path)
    \o (IF u.forceQuery \/ u.query # <<>> THEN <<"?">> \o u.query ELSE <<>>)
    \o (IF u.fragment # <<>> THEN <<"#">> \o u.fragment ELSE <<>>)

(***************************************************************************)
(* The markup tree (golang.org/x/net/html Node).  A node is a record       *)
(* [type, data, attr, children]: type is "document", "element" or "text";  *)
(* data is the tag name of an element (the parser lower-cases tag names    *)
(* and attribute keys) or the characters of a text node; attr is the       *)
(* sequence of [key, val]; children is the sequence of child nodes.        *)
(***************************************************************************)
Element(tag, attr, children) ==
  [type |-> "element", data |-> tag, attr |-> attr, children |-> children]

Text(chars) == [type |-> "text", data |-> chars, attr |-> <<>>, children |-> <<>>]

Document(children) ==
  [type |-> "document", data |-> "", attr |-> <<>>, children |-> children]

Attr(key, val) == [key |-> key, val |-> val]

HeadingTags == {"h1", "h2", "h3", "h4", "h5", "h6"}

\* CrawlData as fetchAndAnalyze creates it
NewCrawlData ==
  [title |-> <<>>, htmlVersion |-> "", hasLoginForm |-> FALSE,
   headingCounts |-> [h \in HeadingTags |-> 0],
   internalLinks |-> <<>>, externalLinks |-> <<>>]

\* a test for internal links that forgets the empty host (the fault C9 excludes)
IsInternalSameHostOnly(resolvedURL, baseURL) == resolvedURL.host = baseURL.host

\* the branch of categorizeLink that appends to InternalLinks
IsInternal(resolvedURL, baseURL) ==
  resolvedURL.host = baseURL.host \/ resolvedURL.host = <<>>

\* the early return of categorizeLink on hrefs that are no links
IsIgnoredHref(href) ==
  href = <<>> \/ HasPrefix(href, S_hash) \/ HasPrefix(href, S_javascript)

\* a categorizeLink that keeps a link once (the fault C21 excludes)
AppendLinkOnce(resolvedURL, data, baseURL) ==
  LET link == String(resolvedURL)
      add(seq) == IF \E i \in 1..Len(seq) : seq[i] = link THEN seq ELSE Append(seq, link)
  IN  IF IsInternal(resolvedURL, baseURL)
        THEN [data EXCEPT !.internalLinks = add(@)]
        ELSE [data EXCEPT !.externalLinks = add(@)]

\* the two branches of categorizeLink that append the resolved link
AppendLink(resolvedURL, data, baseURL) ==
  IF IsInternal(resolvedURL, baseURL)
    THEN [data EXCEPT !.internalLinks = Append(@, String(resolvedURL))]
    ELSE [data EXCEPT !.externalLinks = Append(@, String(resolvedURL))]

\* categorizeLink after url.Parse(href) gave linkURL
CategorizeParsed(linkURL, data, baseURL) ==
  IF ~linkURL.ok THEN data
  ELSE AppendLink(ResolveReference(baseURL, linkURL.url), data, baseURL)

\* categorizeLink: the CrawlData after the call
CategorizeLink(href, data, baseURL) ==
  IF IsIgnoredHref(href) THEN data ELSE CategorizeParsed(Parse(href), data, baseURL)

\* the value of the last attribute with this key, lower-cased; "" if none
LastAttrLower(n, key) ==
  IF \E i \in 1..Len(n.attr) : n.attr[i].key = key
    THEN ToLower(n.attr[CHOOSE i \in 1..Len(n.attr) :
                          /\ n.attr[i].key = key
                          /\ \A j \in (i + 1)..Len(n.attr) : n.attr[j].key # key].val)
    ELSE <<>>

\* the test isLoginForm makes on one input for hasPasswordField
IsPasswordInput(n) ==
  n.type = "element" /\ n.data = "input" /\ LastAttrLower(n, "type") = S_password

\* a test for hasUsernameField that forgets the type email (the fault C10 excludes)
IsUsernameFieldByName(inputName, inputType) ==
  \/ Contains(inputName, S_user)
  \/ Contains(inputName, S_email)
  \/ Contains(inputName, S_login)

\* the test isLoginForm makes on one input for hasUsernameField
IsUsernameField(inputName, inputType) ==
  \/ Contains(inputName, S_user)
  \/ Contains(inputName, S_email)
  \/ Contains(inputName, S_login)
  \/ inputType = S_email

IsUsernameInput(n) ==
  /\ n.type = "element" /\ n.data = "input"
  /\ IsUsernameField(LastAttrLower(n, "name"), LastAttrLower(n, "type"))

RECURSIVE WalkFormNode(_, _)
\* walkFormNode of isLoginForm over the nodes in todo (a stack, first on top)
\* with the two flags so far: <<hasPasswordField, hasUsernameField>>
WalkFormNode(todo, flags) ==
  IF todo = <<>> THEN flags
  ELSE WalkFormNode(Head(todo).children \o Tail(todo),
                    <<flags[1] \/ IsPasswordInput(Head(todo)),
                      flags[2] \/ IsUsernameInput(Head(todo))>>)

\* isLoginForm
IsLoginForm(formNode) ==
  WalkFormNode(<<formNode>>, <<FALSE, FALSE>>) = <<TRUE, TRUE>>

\* regexp `<!doctype\s+html`
MatchesDoctypeHtml(s) ==
  \E i \in 1..Len(s) : \E k \in 1..Len(s) :
    /\ i + Len(S_doctype) + k + Len(S_html) - 1 <= Len(s)
    /\ SubSeq(s, i, i + Len(S_doctype) - 1) = S_doctype
    /\ \A j \in (i + Len(S_doctype))..(i + Len(S_doctype) + k - 1) :
         s[j] \in {" ", "\t", "\n", "\f", "\r"}
    /\ SubSeq(s, i + Len(S_doctype) + k, i + Len(S_doctype) + k + Len(S_html) - 1) = S_html

\* a detectHTMLVersion that looks for XHTML 1.1 before XHTML 1.0 (the fault
\* C12 excludes)
DetectLoweredXhtml11First(lower) ==
  IF Contains(lower, S_doctypeHtml5) THEN "HTML5"
  ELSE IF Contains(lower, S_html401) THEN "HTML 4.01"
  ELSE IF Contains(lower, S_xhtml11) THEN "XHTML 1.1"
  ELSE IF Contains(lower, S_xhtml10) THEN "XHTML 1.0"
  ELSE IF MatchesDoctypeHtml(lower) THEN "HTML"
  ELSE "Unknown"

\* detectHTMLVersion, after the content was lower-cased
DetectLowered(lower) ==
  IF Contains(lower, S_doctypeHtml5) THEN "HTML5"
  ELSE IF Contains(lower, S_html401) THEN "HTML 4.01"
  ELSE IF Contains(lower, S_xhtml10) THEN "XHTML 1.0"
  ELSE IF Contains(lower, S_xhtml11) THEN "XHTML 1.1"
  ELSE IF MatchesDoctypeHtml(lower) THEN "HTML"
  ELSE "Unknown"

DetectHTMLVersion(htmlContent) == DetectLowered(ToLower(htmlContent))

\* the href of an a element that walkNode passes on: the first href attribute
HasHref(n) == \E i \in 1..Len(n.attr) : n.attr[i].key = "href"

FirstHref(n) ==
  n.attr[CHOOSE i \in 1..Len(n.attr) :
           n.attr[i].key = "href" /\ \A j \in 1..(i - 1) : n.attr[j].key # "href"].val

\* a walkNode whose flag is the result of the last form (the fault C22
\* excludes)
VisitElementLastForm(n, data, baseURL) ==
  IF n.data = "title"
    THEN IF n.children # <<>>
           THEN [data EXCEPT !.title = TrimSpace(n.children[1].data)]
           ELSE data
  ELSE IF n.data \in HeadingTags
    THEN [data EXCEPT !.headingCounts[n.data] = @ + 1]
  ELSE IF n.data = "a"
    THEN IF HasHref(n) THEN CategorizeLink(FirstHref(n), data, baseURL) ELSE data
  ELSE IF n.data = "form"
    THEN [data EXCEPT !.hasLoginForm = IsLoginForm(n)]
  ELSE data

\* the switch of walkNode on one element
VisitElement(n, data, baseURL) ==
  IF n.data = "title"
    THEN IF n.children # <<>>
           THEN [data EXCEPT !.title = TrimSpace(n.children[1].data)]
           ELSE data
  ELSE IF n.data \in HeadingTags
    THEN [data EXCEPT !.headingCounts[n.data] = @ + 1]
  ELSE IF n.data = "a"
    THEN IF HasHref(n) THEN CategorizeLink(FirstHref(n), data, baseURL) ELSE data
  ELSE IF n.data = "form"
    THEN IF IsLoginForm(n) THEN [data EXCEPT !.hasLoginForm = TRUE] ELSE data
  ELSE data

\* the check for the HTML version that walkNode makes at every node
VisitVersion(data, htmlContent) ==
  IF data.htmlVersion = ""
    THEN [data EXCEPT !.htmlVersion = DetectHTMLVersion(htmlContent)]
    ELSE data

\* walkNode on the node itself, before it descends into the children
Visit(n, data, baseURL, htmlContent) ==
  VisitVersion(IF n.type = "element" THEN VisitElement(n, data, baseURL) ELSE data,
               htmlContent)

RECURSIVE WalkNodes(_, _, _, _)
\* walkNode over a stack of nodes still to walk (depth first, children in order)
WalkNodes(todo, data, baseURL, htmlContent) ==
  IF todo = <<>> THEN data
  ELSE WalkNodes(Head(todo).children \o Tail(todo),
                 Visit(Head(todo), data, baseURL, htmlContent), baseURL, htmlContent)

\* walkNode
WalkNode(n, data, baseURL, htmlContent) == WalkNodes(<<n>>, data, baseURL, htmlContent)

\* the analysis part of fetchAndAnalyze: the CrawlData of a fetched page
Analyze(targetURL, doc, body) == WalkNode(doc, NewCrawlData, Parse(targetURL).url, body)

(***************************************************************************)
(* The state: the tables of the database, the crawl invocations (one per   *)
(* goroutine started by StartCrawl), the last HTTP response of a handler,  *)
(* and the position of a tree walk analysed on its own.                    *)
(***************************************************************************)
VARIABLES
  urls,          \* table urls: id -> [url, userID, status, errorMessage, deleted]
  crawls,        \* crawl invocation -> its position and its local variables
  crawlResults,  \* table crawl_results: the rows in creation order (ID = index)
  links,         \* table links: the rows in creation order
  response,      \* the last response sent by a crawl or URL handler
  walk           \* one walkNode traversal: its input, stack and CrawlData

vars == <<urls, crawls, crawlResults, links, response, walk>>

\* models.CrawlStatus
StatusQueued == "queued"

StatusRunning == "running"

StatusCompleted == "completed"

StatusError == "error"

\* models.LinkType
LinkTypeInternal == "internal"

LinkTypeExternal == "external"

\* net/http status codes the handlers answer with
StatusOK == 200

StatusCreated == 201

StatusBadRequest == 400

StatusNotFound == 404

StatusConflict == 409

\* bounds of the model
NumUsers == 1

NumURLs == 1

NumRequestURLs == 2

MaxCrawls == 2

MaxFaults == 1

MaxRedirects == 11

NumOwners == 2

MaxRecords == 3

Users == 1..NumUsers

\* the users of the requests on records of several owners
Owners == 1..NumOwners

URLIDs == 1..NumURLs

CrawlIDs == 1..MaxCrawls

\* the id parameters of requests: the ids of the table and one that is not there
IDParams == DOMAIN urls \cup {Cardinality(DOMAIN urls) + 1}

Min(a, b) == IF a <= b THEN a ELSE b

\* --------------------------------------------------------------------
\* the network, as the crawler sees it

\* the final status codes a server answers with; NoResponse: the request failed
Statuses == {200, 399, 400, 404}

NoResponse == 0

\* CheckRedirect of NewCrawlerService, called before redirect number k of a
\* chain is followed, when via holds the k requests made so far
CheckRedirectStops(lenVia) == lenVia >= 10

\* cs.client.Get: the error of the request, "" if a response arrived.
\* net is what the network does: [fail, redirects, status, bodyFails]
ClientGetError(net) ==
  IF net.fail # "" THEN net.fail
  ELSE IF \E k \in 1..net.redirects : CheckRedirectStops(k)
    THEN "stopped after 10 redirects"
  ELSE ""

\* resp.Status, the status line of the response: the code and its reason
\* phrase
ResponseStatus(status) ==
  ToString(status) \o " " \o (CASE status = 200 -> "OK"
                                  [] status = 400 -> "Bad Request"
                                  [] status = 404 -> "Not Found"
                                  [] OTHER -> "")

\* fmt.Errorf("HTTP error: %d %s", resp.StatusCode, resp.Status)
HTTPErrorText(status) ==
  "HTTP error: " \o ToString(status) \o " " \o ResponseStatus(status)

\* a fetchAndAnalyze without the check of the status code (the fault C3 excludes)
FetchAndAnalyzeAnyStatus(net, analysed) ==
  IF ClientGetError(net) # ""
    THEN [err |-> "failed to fetch URL: " \o ClientGetError(net), data |-> NewCrawlData]
  ELSE IF net.bodyFails
    THEN [err |-> "failed to read response body: unexpected EOF", data |-> NewCrawlData]
  ELSE [err |-> "", data |-> analysed]

\* fetchAndAnalyze: [err, data]; analysed is the CrawlData that the walk of
\* the parsed body gives
FetchAndAnalyze(net, analysed) ==
  IF ClientGetError(net) # ""
    THEN [err |-> "failed to fetch URL: " \o ClientGetError(net), data |-> NewCrawlData]
  ELSE IF net.status >= 400
    THEN [err |-> HTTPErrorText(net.status), data |-> NewCrawlData]
  ELSE IF net.bodyFails
    THEN [err |-> "failed to read response body: unexpected EOF", data |-> NewCrawlData]
  ELSE [err |-> "", data |-> analysed]

\* the cap of checkLinkAccessibility
MaxCheckedLinks == 50

\* an allLinks without the cap (the fault C6 excludes)
AllLinksUncapped(internalLinks, externalLinks) == internalLinks \o externalLinks

\* allLinks of checkLinkAccessibility: the links it will check
AllLinks(internalLinks, externalLinks) ==
  LET allLinks == internalLinks \o externalLinks
  IN  IF Len(allLinks) > MaxCheckedLinks
        THEN SubSeq(allLinks, 1, MaxCheckedLinks)
        ELSE allLinks

\* an isLinkBroken that gives up after the HEAD (the fault C7 excludes)
IsLinkBrokenHeadOnly(head, get) ==
  IF head = NoResponse
    THEN [sent |-> <<"HEAD">>, status |-> NoResponse, broken |-> TRUE]
    ELSE [sent |-> <<"HEAD">>, status |-> head, broken |-> head >= 400]

\* isLinkBroken, given the answers head and get of the network to a HEAD and
\* to a GET of the link (a final status code, or NoResponse):
\* [sent, status, broken], the requests sent, the status of the response
\* looked at (NoResponse if none) and the result
IsLinkBroken(head, get) ==
  IF head = NoResponse
    THEN IF get = NoResponse
           THEN [sent |-> <<"HEAD", "GET">>, status |-> NoResponse, broken |-> TRUE]
           ELSE [sent |-> <<"HEAD", "GET">>, status |-> get, broken |-> get >= 400]
    ELSE [sent |-> <<"HEAD">>, status |-> head, broken |-> head >= 400]

\* brokenSet of saveLinks
BrokenSet(brokenLinks) == {brokenLinks[i] : i \in 1..Len(brokenLinks)}

\* a saveLinks that marks by position, the rows past the cap never broken
\* (the fault the amended C8 excludes)
LinkRowsByPosition(crawlResultID, internalLinks, externalLinks, brokenLinks, failAt) ==
  LET allLinks == internalLinks \o externalLinks
      all == [i \in 1..Len(allLinks) |->
                [crawlResultID |-> crawlResultID, url |-> allLinks[i],
                 type |-> IF i <= Len(internalLinks) THEN LinkTypeInternal
                                                     ELSE LinkTypeExternal,
                 isBroken |-> i <= MaxCheckedLinks /\ allLinks[i] \in BrokenSet(brokenLinks)]]
  IN  IF failAt = 0 THEN all
      ELSE SubSeq(all, 1, failAt - 1) \o SubSeq(all, failAt + 1, Len(all))

\* the rows saveLinks creates, in order; row number failAt (0: none) is
\* rejected by the database, logged and skipped
LinkRows(crawlResultID, internalLinks, externalLinks, brokenLinks, failAt) ==
  LET row(link, type) ==
        [crawlResultID |-> crawlResultID, url |-> link, type |-> type,
         isBroken |-> link \in BrokenSet(brokenLinks)]
      all == [i \in 1..Len(internalLinks) |-> row(internalLinks[i], LinkTypeInternal)]
               \o [i \in 1..Len(externalLinks) |-> row(externalLinks[i], LinkTypeExternal)]
  IN  IF failAt = 0 THEN all
      ELSE SubSeq(all, 1, failAt - 1) \o SubSeq(all, failAt + 1, Len(all))

\* a CrawlResult that takes the count of h6 from h5 (the fault C15 excludes)
NewCrawlResultH6FromH5(urlID, crawlData, brokenLinks) ==
  [urlID |-> urlID, title |-> crawlData.title, htmlVersion |-> crawlData.htmlVersion,
   hasLoginForm |-> crawlData.hasLoginForm,
   h1Count |-> crawlData.headingCounts["h1"], h2Count |-> crawlData.headingCounts["h2"],
   h3Count |-> crawlData.headingCounts["h3"], h4Count |-> crawlData.headingCounts["h4"],
   h5Count |-> crawlData.headingCounts["h5"], h6Count |-> crawlData.headingCounts["h5"],
   internalLinks |-> Len(crawlData.internalLinks),
   externalLinks |-> Len(crawlData.externalLinks),
   brokenLinks |-> Len(brokenLinks)]

\* models.CrawlResult as CrawlURL fills it
NewCrawlResult(urlID, crawlData, brokenLinks) ==
  [urlID |-> urlID, title |-> crawlData.title, htmlVersion |-> crawlData.htmlVersion,
   hasLoginForm |-> crawlData.hasLoginForm,
   h1Count |-> crawlData.headingCounts["h1"], h2Count |-> crawlData.headingCounts["h2"],
   h3Count |-> crawlData.headingCounts["h3"], h4Count |-> crawlData.headingCounts["h4"],
   h5Count |-> crawlData.headingCounts["h5"], h6Count |-> crawlData.headingCounts["h6"],
   internalLinks |-> Len(crawlData.internalLinks),
   externalLinks |-> Len(crawlData.externalLinks),
   brokenLinks |-> Len(brokenLinks)]

\* CrawlResult.GetTotalHeadings
GetTotalHeadings(cr) ==
  cr.h1Count + cr.h2Count + cr.h3Count + cr.h4Count + cr.h5Count + cr.h6Count

\* --------------------------------------------------------------------
\* the local variables of a crawl invocation

NoEntry ==
  [id |-> 0, url |-> <<>>, userID |-> 0, status |-> "", errorMessage |-> "",
   deleted |-> FALSE]

\* the last turn of the probe loop: the link, the answers head and get of the
\* network, and what isLinkBroken made of them
NoProbe ==
  [link |-> <<>>, head |-> NoResponse, get |-> NoResponse, sent |-> <<>>,
   status |-> NoResponse, broken |-> FALSE]

\* what the network did to the primary fetch (none yet)
NoNet == [fail |-> "", redirects |-> 0, status |-> NoResponse, bodyFails |-> FALSE]

\* pc "idle": the invocation has not been started
IdleCrawl ==
  [pc |-> "idle", urlID |-> 0, urlEntry |-> NoEntry, crawlData |-> NewCrawlData,
   fetched |-> NoNet, probed |-> <<>>, brokenLinks |-> <<>>, lastProbe |-> NoProbe,
   crawlResultID |-> 0, err |-> ""]

\* CrawlURL has returned err: its local variables are gone; what it did
\* stays known (the fetch it made, the links it probed, the result row it
\* created)
Returned(crawl, err) ==
  [IdleCrawl EXCEPT !.pc = "done", !.urlID = crawl.urlID, !.fetched = crawl.fetched,
                    !.probed = crawl.probed,
                    !.crawlResultID = crawl.crawlResultID, !.err = err]

\* db.First(&urlEntry, id) / db.Where("id = ? AND user_id = ?"): the row as a struct
Row(id) ==
  [id |-> id, url |-> urls[id].url, userID |-> urls[id].userID,
   status |-> urls[id].status, errorMessage |-> urls[id].errorMessage,
   deleted |-> urls[id].deleted]

\* db.Save(&entry): every column of the row is written from the struct
Save(entry) ==
  [urls EXCEPT ![entry.id] = [url |-> entry.url, userID |-> entry.userID,
                              status |-> entry.status,
                              errorMessage |-> entry.errorMessage,
                              deleted |-> entry.deleted]]

\* a query that does not look at the owner of the row (the fault C29 excludes)
FoundOfAnyUser(userID, id) == id \in DOMAIN urls /\ ~urls[id].deleted

\* db.Where("id = ? AND user_id = ?", id, userID).First(&url) finds a row;
\* the queries of a model with DeletedAt leave out the rows deleted
Found(userID, id) == id \in DOMAIN urls /\ urls[id].userID = userID /\ ~urls[id].deleted

Respond(handler, code) == response' = [handler |-> handler, code |-> code]

\* the invocation the next go statement starts
FreeCrawl == CHOOSE c \in CrawlIDs : crawls[c].pc = "idle" /\ \A d \in 1..(c - 1) : crawls[d].pc # "idle"

\* --------------------------------------------------------------------
\* handlers/crawl.go

\* a StartCrawl without the check for a running crawl (the fault C1 excludes)
StartCrawlUnchecked(userID, id) ==
  /\ IF ~Found(userID, id)
       THEN Respond("StartCrawl", StatusNotFound) /\ UNCHANGED crawls
       ELSE /\ \E c \in CrawlIDs : crawls[c].pc = "idle"
            /\ crawls' = [crawls EXCEPT ![FreeCrawl] =
                            [IdleCrawl EXCEPT !.pc = "first", !.urlID = id]]
            /\ Respond("StartCrawl", StatusOK)
  /\ UNCHANGED <<urls, crawlResults, links, walk>>

\* StartCrawl: POST /urls/:id/start as userID
StartCrawl(userID, id) ==
  /\ IF ~Found(userID, id)
       THEN Respond("StartCrawl", StatusNotFound) /\ UNCHANGED crawls
     ELSE IF urls[id].status = StatusRunning
       THEN Respond("StartCrawl", StatusConflict) /\ UNCHANGED crawls
     ELSE /\ \E c \in CrawlIDs : crawls[c].pc = "idle"
          /\ crawls' = [crawls EXCEPT ![FreeCrawl] =
                          [IdleCrawl EXCEPT !.pc = "first", !.urlID = id]]
          /\ Respond("StartCrawl", StatusOK)
  /\ UNCHANGED <<urls, crawlResults, links, walk>>

\* a StopCrawl without the check of the status (the fault the amended C2 excludes)
StopCrawlUnchecked(userID, id) ==
  /\ IF ~Found(userID, id)
       THEN Respond("StopCrawl", StatusNotFound) /\ UNCHANGED urls
       ELSE /\ urls' = Save([Row(id) EXCEPT !.status = StatusQueued,
                                            !.errorMessage = "Crawling stopped by user"])
            /\ Respond("StopCrawl", StatusOK)
  /\ UNCHANGED <<crawls, crawlResults, links, walk>>

\* StopCrawl: POST /urls/:id/stop as userID
StopCrawl(userID, id) ==
  /\ IF ~Found(userID, id)
       THEN Respond("StopCrawl", StatusNotFound) /\ UNCHANGED urls
     ELSE IF urls[id].status # StatusRunning
       THEN Respond("StopCrawl", StatusConflict) /\ UNCHANGED urls
     ELSE /\ urls' = Save([Row(id) EXCEPT !.status = StatusQueued,
                                          !.errorMessage = "Crawling stopped by user"])
          /\ Respond("StopCrawl", StatusOK)
  /\ UNCHANGED <<crawls, crawlResults, links, walk>>

\* BulkStartCrawl: POST /urls/bulk/start as userID with the ids of the request
BulkStartCrawl(userID, ids) ==
  LET found == {id \in ids : Found(userID, id) /\ urls[id].status # StatusRunning}
  IN  /\ IF ids = {} \/ found = {}
           THEN Respond("BulkStartCrawl", StatusBadRequest) /\ UNCHANGED urls
           ELSE /\ urls' = [id \in DOMAIN urls |->
                              IF id \in found
                                THEN [urls[id] EXCEPT !.status = StatusRunning,
                                                      !.errorMessage = ""]
                                ELSE urls[id]]
                /\ Respond("BulkStartCrawl", StatusOK)
      /\ UNCHANGED <<crawls, crawlResults, links, walk>>

\* BulkStopCrawl: POST /urls/bulk/stop as userID with the ids of the request
BulkStopCrawl(userID, ids) ==
  LET found == {id \in ids : Found(userID, id) /\ urls[id].status = StatusRunning}
  IN  /\ IF ids = {} \/ found = {}
           THEN Respond("BulkStopCrawl", StatusBadRequest) /\ UNCHANGED urls
           ELSE /\ urls' = [id \in DOMAIN urls |->
                              IF id \in found
                                THEN [urls[id] EXCEPT !.status = StatusQueued,
                                                      !.errorMessage = "Crawling stopped by user"]
                                ELSE urls[id]]
                /\ Respond("BulkStopCrawl", StatusOK)
      /\ UNCHANGED <<crawls, crawlResults, links, walk>>

\* --------------------------------------------------------------------
\* handlers/url.go

\* isValidURL
IsValidURL(str) ==
  LET u == Parse(str) IN u.ok /\ u.url.scheme # <<>> /\ u.url.host # <<>>

\* UpdateURL: PUT /urls/:id as userID with the new URL string
UpdateURL(userID, id, newURL) ==
  /\ IF ~IsValidURL(newURL)
       THEN Respond("UpdateURL", StatusBadRequest) /\ UNCHANGED urls
     ELSE IF ~Found(userID, id)
       THEN Respond("UpdateURL", StatusNotFound) /\ UNCHANGED urls
     ELSE /\ urls' = Save([Row(id) EXCEPT !.url = newURL, !.status = StatusQueued])
          /\ Respond("UpdateURL", StatusOK)
  /\ UNCHANGED <<crawls, crawlResults, links, walk>>

\* CreateURL: POST /urls as userID with the URL string; the new row gets
\* the next id of the table
CreateURL(userID, url) ==
  /\ IF ~IsValidURL(url)
       THEN Respond("CreateURL", StatusBadRequest) /\ UNCHANGED urls
     ELSE IF \E id \in DOMAIN urls :
               urls[id].userID = userID /\ urls[id].url = url /\ ~urls[id].deleted
       THEN Respond("CreateURL", StatusConflict) /\ UNCHANGED urls
     ELSE /\ Cardinality(DOMAIN urls) < MaxRecords
          /\ urls' = [id \in DOMAIN urls \cup {Cardinality(DOMAIN urls) + 1} |->
                        IF id \in DOMAIN urls THEN urls[id]
                        ELSE [url |-> url, userID |-> userID, status |-> StatusQueued,
                              errorMessage |-> "", deleted |-> FALSE]]
          /\ Respond("CreateURL", StatusCreated)
  /\ UNCHANGED <<crawls, crawlResults, links, walk>>

\* db.Where("id IN ? AND user_id = ?", ids, userID).Delete(&models.URL{}):
\* DeletedAt is set on the rows that match
SoftDelete(userID, ids) ==
  [id \in DOMAIN urls |->
     IF id \in ids /\ Found(userID, id) THEN [urls[id] EXCEPT !.deleted = TRUE]
                                         ELSE urls[id]]

\* DeleteURL: DELETE /urls/:id as userID
DeleteURL(userID, id) ==
  /\ urls' = SoftDelete(userID, {id})
  /\ Respond("DeleteURL", StatusOK)
  /\ UNCHANGED <<crawls, crawlResults, links, walk>>

\* BulkDeleteURLs: DELETE /urls as userID with the ids of the request
BulkDeleteURLs(userID, ids) ==
  /\ IF ids = {}
       THEN Respond("BulkDeleteURLs", StatusBadRequest) /\ UNCHANGED urls
       ELSE urls' = SoftDelete(userID, ids) /\ Respond("BulkDeleteURLs", StatusOK)
  /\ UNCHANGED <<crawls, crawlResults, links, walk>>

\* --------------------------------------------------------------------
\* CrawlURL, one action per access to the database or the network

\* db.First(&urlEntry, urlID)
CrawlFirst(c) ==
  /\ crawls[c].pc = "first"
  /\ crawls' = [crawls EXCEPT ![c] =
                  IF crawls[c].urlID \in DOMAIN urls /\ ~urls[crawls[c].urlID].deleted
                    THEN [@ EXCEPT !.pc = "setRunning", !.urlEntry = Row(crawls[c].urlID)]
                    ELSE Returned(@, "failed to find URL: record not found")]
  /\ UNCHANGED <<urls, crawlResults, links, response, walk>>

\* urlEntry.Status = StatusRunning; db.Save(&urlEntry)
CrawlSetRunning(c) ==
  /\ crawls[c].pc = "setRunning"
  /\ LET entry == [crawls[c].urlEntry EXCEPT !.status = StatusRunning]
     IN  /\ urls' = Save(entry)
         /\ crawls' = [crawls EXCEPT ![c] = [@ EXCEPT !.pc = "fetch", !.urlEntry = entry]]
  /\ UNCHANGED <<crawlResults, links, response, walk>>

\* fetchAndAnalyze(urlEntry.URL), the network doing net and the walk of the
\* body giving analysed
CrawlFetch(c, net, analysed) ==
  /\ crawls[c].pc = "fetch"
  /\ LET res == FetchAndAnalyze(net, analysed)
     IN  crawls' = [crawls EXCEPT ![c] =
           IF res.err # ""
             THEN [@ EXCEPT !.pc = "saveFetchError", !.fetched = net, !.err = res.err]
             ELSE [@ EXCEPT !.fetched = net, !.crawlData = res.data,
                            !.pc = IF AllLinks(res.data.internalLinks,
                                               res.data.externalLinks) = <<>>
                                     THEN "create" ELSE "probe"]]
  /\ UNCHANGED <<urls, crawlResults, links, response, walk>>

\* the error branch after fetchAndAnalyze
CrawlSaveFetchError(c) ==
  /\ crawls[c].pc = "saveFetchError"
  /\ urls' = Save([crawls[c].urlEntry EXCEPT !.status = StatusError,
                                             !.errorMessage = crawls[c].err])
  /\ crawls' = [crawls EXCEPT ![c] = Returned(@, crawls[c].err)]
  /\ UNCHANGED <<crawlResults, links, response, walk>>

\* a probe loop that fails the crawl at the first broken link (the fault C4
\* excludes)
CrawlProbeEscalates(c, head, get) ==
  /\ crawls[c].pc = "probe"
  /\ LET allLinks == AllLinks(crawls[c].crawlData.internalLinks,
                              crawls[c].crawlData.externalLinks)
         link     == allLinks[Len(crawls[c].probed) + 1]
         r        == IsLinkBroken(head, get)
     IN  IF r.broken
           THEN /\ urls' = Save([crawls[c].urlEntry EXCEPT !.status = StatusError,
                                                           !.errorMessage = "broken link"])
                /\ crawls' = [crawls EXCEPT ![c] =
                                Returned([@ EXCEPT !.probed = Append(@, link)], "broken link")]
           ELSE /\ crawls' = [crawls EXCEPT ![c] =
                     [@ EXCEPT !.probed = Append(@, link),
                               !.lastProbe = [link |-> link, head |-> head, get |-> get,
                                              sent |-> r.sent, status |-> r.status,
                                              broken |-> r.broken],
                               !.pc = IF Len(crawls[c].probed) + 1 = Len(allLinks)
                                        THEN "create" ELSE "probe"]]
                /\ UNCHANGED urls
  /\ UNCHANGED <<crawlResults, links, response, walk>>

\* a probe loop that has two probes in flight: a turn takes the next two
\* links at once when two are left (the fault C17 excludes)
CrawlProbePair(c, head, get) ==
  /\ crawls[c].pc = "probe"
  /\ LET allLinks == AllLinks(crawls[c].crawlData.internalLinks,
                              crawls[c].crawlData.externalLinks)
         n        == Min(2, Len(allLinks) - Len(crawls[c].probed))
         r        == IsLinkBroken(head, get)
     IN  /\ ~r.broken
         /\ crawls' = [crawls EXCEPT ![c] =
              [@ EXCEPT !.probed = @ \o SubSeq(allLinks, Len(@) + 1, Len(@) + n),
                        !.lastProbe = [link |-> allLinks[Len(crawls[c].probed) + n],
                                       head |-> head, get |-> get, sent |-> r.sent,
                                       status |-> r.status, broken |-> r.broken],
                        !.pc = IF Len(crawls[c].probed) + n = Len(allLinks)
                                 THEN "create" ELSE "probe"]]
  /\ UNCHANGED <<urls, crawlResults, links, response, walk>>

\* one turn of the loop of checkLinkAccessibility: isLinkBroken on the next
\* link, the network answering head to a HEAD and get to a GET
CrawlProbe(c, head, get) ==
  /\ crawls[c].pc = "probe"
  /\ LET allLinks == AllLinks(crawls[c].crawlData.internalLinks,
                              crawls[c].crawlData.externalLinks)
         link     == allLinks[Len(crawls[c].probed) + 1]
         r        == IsLinkBroken(head, get)
     IN  /\ r.broken => Len(crawls[c].brokenLinks) < MaxFaults
         /\ crawls' = [crawls EXCEPT ![c] =
              [@ EXCEPT !.probed = Append(@, link),
                        !.brokenLinks = IF r.broken THEN Append(@, link) ELSE @,
                        !.lastProbe = [link |-> link, head |-> head, get |-> get,
                                       sent |-> r.sent,
                                       status |-> r.status, broken |-> r.broken],
                        !.pc = IF Len(crawls[c].probed) + 1 = Len(allLinks)
                                 THEN "create" ELSE "probe"]]
  /\ UNCHANGED <<urls, crawlResults, links, response, walk>>

\* the error CrawlURL returns when db.Create(&crawlResult) fails
CreateResultError == "failed to save crawl results: rejected"

\* db.Create(&crawlResult); accepted tells whether the database takes the row
CrawlCreateResult(c, accepted) ==
  /\ crawls[c].pc = "create"
  /\ IF accepted
       THEN /\ crawlResults' = Append(crawlResults,
                                 NewCrawlResult(crawls[c].urlEntry.id, crawls[c].crawlData,
                                                crawls[c].brokenLinks))
            /\ crawls' = [crawls EXCEPT ![c] =
                            [@ EXCEPT !.pc = "saveLinks",
                                      !.crawlResultID = Len(crawlResults) + 1]]
       ELSE /\ crawls' = [crawls EXCEPT ![c] =
                            [@ EXCEPT !.pc = "saveCreateError",
                                      !.err = CreateResultError]]
            /\ UNCHANGED crawlResults
  /\ UNCHANGED <<urls, links, response, walk>>

\* the error branch after db.Create(&crawlResult)
CrawlSaveCreateError(c) ==
  /\ crawls[c].pc = "saveCreateError"
  /\ urls' = Save([crawls[c].urlEntry EXCEPT
                     !.status = StatusError,
                     !.errorMessage = "Failed to save results: rejected"])
  /\ crawls' = [crawls EXCEPT ![c] = Returned(@, crawls[c].err)]
  /\ UNCHANGED <<crawlResults, links, response, walk>>

\* saveLinks; the database rejects row number failAt (0: none)
CrawlSaveLinks(c, failAt) ==
  /\ crawls[c].pc = "saveLinks"
  /\ failAt <= Len(crawls[c].crawlData.internalLinks) + Len(crawls[c].crawlData.externalLinks)
  /\ links' = links \o LinkRows(crawls[c].crawlResultID, crawls[c].crawlData.internalLinks,
                                crawls[c].crawlData.externalLinks, crawls[c].brokenLinks,
                                failAt)
  /\ crawls' = [crawls EXCEPT ![c] = [@ EXCEPT !.pc = "complete"]]
  /\ UNCHANGED <<urls, crawlResults, response, walk>>

\* a completion that leaves the error message of the copy as it is (the
\* fault C25 excludes)
CrawlCompleteKeepsMessage(c) ==
  /\ crawls[c].pc = "complete"
  /\ urls' = Save([crawls[c].urlEntry EXCEPT !.status = StatusCompleted])
  /\ crawls' = [crawls EXCEPT ![c] = Returned(@, "")]
  /\ UNCHANGED <<crawlResults, links, response, walk>>

\* urlEntry.Status = StatusCompleted; urlEntry.ErrorMessage = ""; db.Save(&urlEntry)
CrawlComplete(c) ==
  /\ crawls[c].pc = "complete"
  /\ urls' = Save([crawls[c].urlEntry EXCEPT !.status = StatusCompleted,
                                             !.errorMessage = ""])
  /\ crawls' = [crawls EXCEPT ![c] = Returned(@, "")]
  /\ UNCHANGED <<crawlResults, links, response, walk>>

\* --------------------------------------------------------------------
\* middleware/auth.go and the routes

StatusUnauthorized == 401

\* "Bearer "
S_bearerPrefix == <<"B", "e", "a", "r", "e", "r", " ">>

\* "bearer "
V_bearerLower == <<"b", "e", "a", "r", "e", "r", " ">>

\* "Basic "
V_basic == <<"B", "a", "s", "i", "c", " ">>

\* "Bearer  ", with two spaces
V_bearerTwoSpaces == <<"B", "e", "a", "r", "e", "r", " ", " ">>

\* A token string is a record of what the validation can find in it: its
\* form ("empty": the empty string, "garbage": no JWT, "jwt"), the signing
\* method named in its header, whether its signature was made with the
\* secret of the server, whether it has expired, and the user of its claims.
\* An Authorization header is the characters before the token string and
\* the token string.
NoToken ==
  [form |-> "empty", alg |-> "", signed |-> FALSE, expired |-> FALSE, userID |-> 0]

GarbageToken ==
  [form |-> "garbage", alg |-> "", signed |-> FALSE, expired |-> FALSE, userID |-> 0]

\* token.Method.(*jwt.SigningMethodHMAC)
SigningMethodHMAC == {"HS256", "HS384", "HS512"}

\* validateToken: [ok, userID], ok = FALSE for the error
ValidateToken(tokenString) ==
  IF tokenString.form # "jwt" THEN [ok |-> FALSE, userID |-> 0]
  ELSE IF tokenString.alg \notin SigningMethodHMAC THEN [ok |-> FALSE, userID |-> 0]
  ELSE IF ~tokenString.signed THEN [ok |-> FALSE, userID |-> 0]
  ELSE IF tokenString.expired THEN [ok |-> FALSE, userID |-> 0]
  ELSE [ok |-> TRUE, userID |-> tokenString.userID]

\* strings.TrimPrefix(authHeader, "Bearer ") of a header with the prefix:
\* what follows the prefix; more characters before the token are no JWT
TrimBearer(header) ==
  IF header.scheme = S_bearerPrefix THEN header.token ELSE GarbageToken

\* extractTokenFromHeader
ExtractTokenFromHeader(header) ==
  IF header.scheme = <<>> /\ header.token = NoToken THEN NoToken
  ELSE IF ~HasPrefix(header.scheme, S_bearerPrefix) THEN NoToken
  ELSE TrimBearer(header)

\* an AuthRequired that lets a request without token pass as user 1 (the
\* fault C19 excludes)
AuthRequiredOptional(header) ==
  IF ExtractTokenFromHeader(header) = NoToken
    THEN [abort |-> FALSE, userID |-> 1]
  ELSE IF ~ValidateToken(ExtractTokenFromHeader(header)).ok
    THEN [abort |-> TRUE, userID |-> 0]
  ELSE [abort |-> FALSE, userID |-> ValidateToken(ExtractTokenFromHeader(header)).userID]

\* AuthRequired: [abort, userID]; abort = TRUE when the request is answered
\* 401 and aborted, otherwise userID is the user_id set in the context
AuthRequired(header) ==
  IF ExtractTokenFromHeader(header) = NoToken
    THEN [abort |-> TRUE, userID |-> 0]
  ELSE IF ~ValidateToken(ExtractTokenFromHeader(header)).ok
    THEN [abort |-> TRUE, userID |-> 0]
  ELSE [abort |-> FALSE, userID |-> ValidateToken(ExtractTokenFromHeader(header)).userID]

\* c.Get("user_id") in a handler: the user AuthRequired has set in the context
ContextUserID(header) == AuthRequired(header).userID

\* a route of the group protected: the middleware, then the handler, which
\* is the step handler
Protected(header, handler) ==
  IF AuthRequired(header).abort
    THEN /\ Respond("AuthRequired", StatusUnauthorized)
         /\ UNCHANGED <<urls, crawls, crawlResults, links, walk>>
    ELSE handler

\* handlers/url.go: GetURLsStatus
GetURLsStatus(userID) ==
  /\ Respond("GetURLsStatus", StatusOK)
  /\ UNCHANGED <<urls, crawls, crawlResults, links, walk>>

\* handlers/url.go: GetURLStatus
GetURLStatus(userID, id) ==
  /\ Respond("GetURLStatus", IF Found(userID, id) THEN StatusOK ELSE StatusNotFound)
  /\ UNCHANGED <<urls, crawls, crawlResults, links, walk>>

\* --------------------------------------------------------------------
\* handlers/crawl.go: the tokens of AuthHandler

\* the lifetimes of the two tokens of generateTokens, in hours
AccessTokenHours == 24

RefreshTokenHours == 168

\* generateTokens for the user: [token, refreshToken], each token string as
\* it is read age hours after it was made.  Both carry the same claims and
\* are signed with the same method and secret; expiresAfter is the one
\* field of the strings that differs.
GenerateTokens(userID, age) ==
  [token |->
     [form |-> "jwt", alg |-> "HS256", signed |-> TRUE, expiresAfter |-> AccessTokenHours,
      expired |-> age > AccessTokenHours, userID |-> userID],
   refreshToken |->
     [form |-> "jwt", alg |-> "HS256", signed |-> TRUE, expiresAfter |-> RefreshTokenHours,
      expired |-> age > RefreshTokenHours, userID |-> userID]]

\* validateRefreshToken: [ok, userID], ok = FALSE for the error
ValidateRefreshToken(tokenString) ==
  IF tokenString.form # "jwt" THEN [ok |-> FALSE, userID |-> 0]
  ELSE IF tokenString.alg \notin SigningMethodHMAC THEN [ok |-> FALSE, userID |-> 0]
  ELSE IF ~tokenString.signed THEN [ok |-> FALSE, userID |-> 0]
  ELSE IF tokenString.expired THEN [ok |-> FALSE, userID |-> 0]
  ELSE [ok |-> TRUE, userID |-> tokenString.userID]

\* RefreshToken: POST /auth/refresh with the token string refresh_token;
\* the answer 200 carries the new tokens of generateTokens
RefreshToken(tokenString) ==
  /\ IF tokenString = NoToken
       THEN Respond("RefreshToken", StatusBadRequest)
     ELSE IF ~ValidateRefreshToken(tokenString).ok
       THEN Respond("RefreshToken", StatusUnauthorized)
     ELSE IF ValidateRefreshToken(tokenString).userID \notin Users
       THEN Respond("RefreshToken", StatusUnauthorized)
     ELSE Respond("RefreshToken", StatusOK)
  /\ UNCHANGED <<urls, crawls, crawlResults, links, walk>>

\* --------------------------------------------------------------------
\* the frontend: components/URLTable

\* a table that offers Start for queued rows only (the fault C20 excludes)
RowActionStartQueuedOnly(status) == IF status = StatusQueued THEN "Start" ELSE "Stop"

\* the action button of a row: url.status === "running" ? Stop : Start
RowAction(status) == IF status = "running" THEN "Stop" ELSE "Start"

\* --------------------------------------------------------------------
\* strings of the inputs: page URLs (U_), hrefs (H_), attribute values (V_),
\* title text (T_) and the beginning of response bodies (B_)

\* "https://site.com"
U_site == <<"h", "t", "t", "p", "s", ":", "/", "/", "s", "i", "t", "e", ".", "c", "o", "m">>

\* "https://site.com/docs/index.html"
U_sitePage == <<"h", "t", "t", "p", "s", ":", "/", "/", "s", "i", "t", "e", ".", "c", "o", "m", "/", "d", "o", "c", "s", "/", "i", "n", "d", "e", "x", ".", "h", "t", "m", "l">>

\* "site.com"
U_noScheme == <<"s", "i", "t", "e", ".", "c", "o", "m">>

\* ""
H_empty == <<>>

\* "#top"
H_frag == <<"#", "t", "o", "p">>

\* "javascript:void(0)"
H_js == <<"j", "a", "v", "a", "s", "c", "r", "i", "p", "t", ":", "v", "o", "i", "d", "(", "0", ")">>

\* "JavaScript:void(0)"
H_jsUpper == <<"J", "a", "v", "a", "S", "c", "r", "i", "p", "t", ":", "v", "o", "i", "d", "(", "0", ")">>

\* "/x"
H_abs == <<"/", "x">>

\* "x"
H_rel == <<"x">>

\* "https://other.com"
H_other == <<"h", "t", "t", "p", "s", ":", "/", "/", "o", "t", "h", "e", "r", ".", "c", "o", "m">>

\* "https://site.com/y"
H_same == <<"h", "t", "t", "p", "s", ":", "/", "/", "s", "i", "t", "e", ".", "c", "o", "m", "/", "y">>

\* "https://SITE.com/y"
H_sameUpper == <<"h", "t", "t", "p", "s", ":", "/", "/", "S", "I", "T", "E", ".", "c", "o", "m", "/", "y">>

\* "//cdn.com/a"
H_schemeRel == <<"/", "/", "c", "d", "n", ".", "c", "o", "m", "/", "a">>

\* "//site.com/b"
H_schemeRelSame == <<"/", "/", "s", "i", "t", "e", ".", "c", "o", "m", "/", "b">>

\* "mailto:a@b.c"
H_mailto == <<"m", "a", "i", "l", "t", "o", ":", "a", "@", "b", ".", "c">>

\* "?q"
H_query == <<"?", "q">>

\* "/x#s"
H_withFrag == <<"/", "x", "#", "s">>

\* ":bad"
H_colonFirst == <<":", "b", "a", "d">>

\* "1:2"
H_colonSeg == <<"1", ":", "2">>

\* "http://a b/"
H_badHost == <<"h", "t", "t", "p", ":", "/", "/", "a", " ", "b", "/">>

\* " #x"
H_space == <<" ", "#", "x">>

\* "https://site.com:8080/z"
H_port == <<"h", "t", "t", "p", "s", ":", "/", "/", "s", "i", "t", "e", ".", "c", "o", "m", ":", "8", "0", "8", "0", "/", "z">>

\* "Password"
V_Password == <<"P", "a", "s", "s", "w", "o", "r", "d">>

\* "text"
V_text == <<"t", "e", "x", "t">>

\* "Email"
V_Email == <<"E", "m", "a", "i", "l">>

\* "username"
V_username == <<"u", "s", "e", "r", "n", "a", "m", "e">>

\* "UserName"
V_UserName == <<"U", "s", "e", "r", "N", "a", "m", "e">>

\* "user_email"
V_userEmail == <<"u", "s", "e", "r", "_", "e", "m", "a", "i", "l">>

\* "LOGIN_id"
V_loginId == <<"L", "O", "G", "I", "N", "_", "i", "d">>

\* "pwd"
V_pwd == <<"p", "w", "d">>

\* "q"
V_q == <<"q">>

\* "e-mail"
V_e_mail == <<"e", "-", "m", "a", "i", "l">>

\* " Hi "
T_Hi == <<" ", "H", "i", " ">>

\* "<!DOCTYPE html><html>"
B_html5 == <<"<", "!", "D", "O", "C", "T", "Y", "P", "E", " ", "h", "t", "m", "l", ">", "<", "h", "t", "m", "l", ">">>

\* "<html>"
B_plain == <<"<", "h", "t", "m", "l", ">">>

\* further title texts and response bodies

\* "Second"
T_Second == <<"S", "e", "c", "o", "n", "d">>

\* Icon followed by a line feed
T_Icon == <<"I", "c", "o", "n", "\n">>

\* "<!DocType HTML>"
B_upper == <<"<", "!", "D", "o", "c", "T", "y", "p", "e", " ", "H", "T", "M", "L", ">">>

\* "<!DOCTYPE HTML PUBLIC HTML 4.01>"
B_html401 == <<"<", "!", "D", "O", "C", "T", "Y", "P", "E", " ", "H", "T", "M", "L", " ", "P", "U", "B", "L", "I", "C", " ", "H", "T", "M", "L", " ", "4", ".", "0", "1", ">">>

\* "<!DOCTYPE html PUBLIC XHTML 1.0>"
B_xhtml10 == <<"<", "!", "D", "O", "C", "T", "Y", "P", "E", " ", "h", "t", "m", "l", " ", "P", "U", "B", "L", "I", "C", " ", "X", "H", "T", "M", "L", " ", "1", ".", "0", ">">>

\* "<!DOCTYPE html PUBLIC XHTML 1.1>"
B_xhtml11 == <<"<", "!", "D", "O", "C", "T", "Y", "P", "E", " ", "h", "t", "m", "l", " ", "P", "U", "B", "L", "I", "C", " ", "X", "H", "T", "M", "L", " ", "1", ".", "1", ">">>

\* "<p>XHTML 1.1, XHTML 1.0"
B_xhtml11Then10 == <<"<", "p", ">", "X", "H", "T", "M", "L", " ", "1", ".", "1", ",", " ", "X", "H", "T", "M", "L", " ", "1", ".", "0">>

\* "<html><p>HTML 4.01"
B_html401Text == <<"<", "h", "t", "m", "l", ">", "<", "p", ">", "H", "T", "M", "L", " ", "4", ".", "0", "1">>

\* "<!-- html 4.01 --><!doctype html>"
B_html401Then5 == <<"<", "!", "-", "-", " ", "h", "t", "m", "l", " ", "4", ".", "0", "1", " ", "-", "-", ">", "<", "!", "d", "o", "c", "t", "y", "p", "e", " ", "h", "t", "m", "l", ">">>

\* "<!DOCTYPE html PUBLIC XHTML 1.0 HTML 4.01>"
B_xhtml10Then401 == <<"<", "!", "D", "O", "C", "T", "Y", "P", "E", " ", "h", "t", "m", "l", " ", "P", "U", "B", "L", "I", "C", " ", "X", "H", "T", "M", "L", " ", "1", ".", "0", " ", "H", "T", "M", "L", " ", "4", ".", "0", "1", ">">>

\* <!DOCTYPE, a line feed, a tab, html SYSTEM>
B_legacy == <<"<", "!", "D", "O", "C", "T", "Y", "P", "E", "\n", "\t", "h", "t", "m", "l", " ", "S", "Y", "S", "T", "E", "M", ">">>

\* "<!DOCTYPE html >"
B_doctypeSpace == <<"<", "!", "D", "O", "C", "T", "Y", "P", "E", " ", "h", "t", "m", "l", " ", ">">>

\* "<!DOCTYPE svg>"
B_doctypeSvg == <<"<", "!", "D", "O", "C", "T", "Y", "P", "E", " ", "s", "v", "g", ">">>

\* "<!doctypehtml>"
B_doctypeNoSpace == <<"<", "!", "d", "o", "c", "t", "y", "p", "e", "h", "t", "m", "l", ">">>

\* ""
B_empty == <<>>

\* --------------------------------------------------------------------
\* markup trees of the inputs

A(href) == Element("a", <<Attr("href", href)>>, <<Text(<<"x">>)>>)

Div(children) == Element("div", <<Attr("class", V_q)>>, children)

Form(children) == Element("form", <<Attr("method", V_q)>>, children)

Input(type, name) == Element("input", <<Attr("type", type), Attr("name", name)>>, <<>>)

\* html > (head > title?) (body > content)
Page(titles, content) ==
  Document(<<Element("html", <<>>,
               <<Element("head", <<>>, [i \in 1..Len(titles) |->
                                          Element("title", <<>>, <<Text(titles[i])>>)]),
                 Element("body", <<>>, content)>>)>>)

Hrefs ==
  {H_empty, H_frag, H_js, H_jsUpper, H_abs, H_rel, H_other, H_same, H_sameUpper,
   H_schemeRel, H_schemeRelSame, H_mailto, H_query, H_withFrag, H_colonFirst,
   H_colonSeg, H_badHost, H_space, H_port}

\* inputs and other fields of a form: type and name in several spellings,
\* an input with one attribute only, a button, a text
Fields ==
  {Input(S_password, V_pwd), Input(V_Password, V_q), Input(V_text, V_username),
   Input(V_text, V_UserName), Input(S_email, V_q), Input(V_Email, V_q),
   Input(V_text, V_q), Input(V_text, V_e_mail), Input(S_password, V_userEmail),
   Element("input", <<Attr("name", V_loginId)>>, <<>>),
   Element("input", <<Attr("type", S_password)>>, <<>>),
   Element("button", <<Attr("type", S_password), Attr("name", S_user)>>, <<>>),
   Text(S_password \o S_user)}

\* pages with anchors: two anchors, the second nested and behind another attribute
AnchorPages ==
  {Page(<<T_Hi>>,
        <<A(h1), Div(<<Element("a", <<Attr("class", V_q), Attr("href", h2)>>, <<>>),
                       Element("a", <<Attr("name", V_q)>>, <<>>)>>)>>) :
     h1 \in Hrefs, h2 \in {H_abs, H_other, H_frag, H_rel}}

\* pages with a form: one field, two fields, a nested field, a field after the form
FormPages ==
  {Page(<<>>, <<Form(<<f>>)>>) : f \in Fields}
    \cup {Page(<<>>, <<Form(<<f, Div(<<Div(<<g>>)>>)>>)>>) : f \in Fields, g \in Fields}
    \cup {Page(<<>>, <<Form(<<f>>), g>>) : f \in Fields, g \in Fields}

\* response bodies with and without a doctype, with the markers of
\* detectHTMLVersion in several orders and letter cases
Bodies ==
  {B_html5, B_plain, B_upper, B_html401, B_xhtml10, B_xhtml11, B_xhtml11Then10,
   B_html401Text, B_html401Then5, B_xhtml10Then401, B_legacy, B_doctypeSpace,
   B_doctypeSvg, B_doctypeNoSpace, B_empty}

Title(children) == Element("title", <<>>, children)

\* pages with no, one and several title elements: in the head, empty, and
\* in a drawing of the body
TitlePages ==
  {Page(<<>>, <<Div(<<>>)>>),
   Page(<<T_Hi>>, <<Div(<<>>)>>),
   Page(<<T_Hi, T_Second>>, <<>>),
   Page(<<T_Hi>>, <<Div(<<Element("svg", <<>>, <<Title(<<Text(T_Icon)>>)>>)>>)>>),
   Page(<<>>, <<Element("svg", <<>>, <<Title(<<Text(T_Icon)>>)>>)>>),
   Document(<<Element("html", <<>>,
                <<Element("head", <<>>, <<Title(<<>>), Title(<<Text(T_Second)>>)>>),
                  Element("body", <<>>, <<>>)>>)>>)}

Heading(level, attr, children) == Element(level, attr, children)

\* pages with headings: none, one of each level, the same level several
\* times, nested in other elements and in each other, with attributes
HeadingPages ==
  {Page(<<T_Hi>>, <<Div(<<Text(<<"h", "1">>)>>)>>),
   Page(<<>>, [i \in 1..6 |-> Heading(<<"h1", "h2", "h3", "h4", "h5", "h6">>[i], <<>>, <<>>)]),
   Page(<<>>, <<Heading("h1", <<>>, <<Text(<<"A">>)>>),
                Heading("h1", <<>>, <<Text(<<"A">>)>>),
                Div(<<Div(<<Heading("h1", <<Attr("class", V_q)>>, <<>>),
                            Heading("h3", <<Attr("id", V_q), Attr("class", V_q)>>, <<>>)>>)>>)>>),
   Page(<<>>, <<Heading("h2", <<>>, <<Heading("h6", <<>>, <<Heading("h2", <<>>, <<>>)>>)>>),
                Form(<<Heading("h6", <<>>, <<>>), Heading("h5", <<>>, <<>>)>>)>>),
   Page(<<>>, <<Element("header", <<>>, <<Element("h7", <<>>, <<>>)>>),
                Heading("h4", <<Attr("hidden", <<>>)>>, <<A(H_abs)>>)>>)}

\* pages that name a link several times: as the same href and as hrefs that
\* resolve to the same URL, among anchors that are no links
RepeatedLinkPages ==
  {Page(<<T_Hi>>, <<A(H_abs), A(H_frag), A(H_abs),
                    Div(<<A(H_rel), A(H_other), A(H_abs), A(H_js), A(H_other)>>),
                    A(H_badHost), A(H_rel)>>),
   Page(<<>>, <<A(H_same), Div(<<A(H_sameUpper), A(H_same)>>), A(H_empty),
                A(H_mailto), A(H_mailto)>>)}

\* a form that isLoginForm takes for a login form, and one it does not
LoginForm == Form(<<Input(V_text, V_username), Div(<<Input(S_password, V_pwd)>>)>>)

SearchForm == Form(<<Input(V_text, V_q)>>)

\* pages with several forms, in each order, side by side and apart
SeveralFormPages ==
  {Page(<<>>, <<f, Div(<<g>>)>>) : f, g \in {LoginForm, SearchForm}}
    \cup {Page(<<>>, <<SearchForm, Div(<<LoginForm, A(H_abs)>>), SearchForm>>),
          Page(<<>>, <<SearchForm, SearchForm, Form(<<Input(S_password, V_pwd)>>)>>)}

\* the walks analysed on their own: a page, the URL it was fetched from, its body
WalkInputs ==
  {[url |-> u, doc |-> d, body |-> b] :
     u \in {U_site, U_sitePage}, d \in AnchorPages \cup FormPages, b \in {B_html5}}
   \cup {[url |-> U_site, doc |-> d, body |-> b] :
           d \in {Document(<<>>), Page(<<T_Hi>>, <<Div(<<>>)>>)}, b \in Bodies}
   \cup {[url |-> U_site, doc |-> d, body |-> b] :
           d \in TitlePages \cup HeadingPages, b \in {B_html5, B_plain}}
   \cup {[url |-> u, doc |-> d, body |-> B_html5] :
           u \in {U_site, U_sitePage}, d \in RepeatedLinkPages}
   \cup {[url |-> U_site, doc |-> d, body |-> B_html5] : d \in SeveralFormPages}

\* the page the crawls of the whole system fetch: scenario A of the
\* specification
PageA ==
  [doc |-> Page(<<T_Hi>>, <<Element("h1", <<>>, <<Text(<<"A">>)>>),
                            Element("h2", <<>>, <<Text(<<"B">>)>>),
                            A(H_abs), A(H_other)>>),
   body |-> B_html5]


\* the lengths of the redirect chains of the primary fetch: none, and those
\* around the limit of the client
RedirectCounts == {0, MaxRedirects - 2, MaxRedirects - 1, MaxRedirects}

\* what the network does to the primary fetch: the request fails or not,
\* after so many redirects, with this final status, the body readable or not
\* (every final status without redirects, every chain with status 200)
Nets ==
  {net \in [fail : {"", "timeout"}, redirects : RedirectCounts, status : Statuses,
            bodyFails : BOOLEAN] : net.redirects = 0 \/ net.status = 200}

\* the primary fetches of the crawls of the whole system: a page, an HTTP error
FewNets ==
  {[fail |-> "", redirects |-> 0, status |-> s, bodyFails |-> FALSE] : s \in {200, 400}}

\* the answers of the network to a probe
Answers == Statuses \cup {NoResponse}

\* the answers to the probes of the crawls of the whole system
FewAnswers == {200}

\* what the network would answer to the GET of a probe; after a HEAD that
\* was answered two cases are enough
GetAnswers(head) == IF head = NoResponse THEN Answers ELSE {NoResponse, 400}

\* the link rows the database rejects in one saveLinks: none, the first or the last
LinkFailures(crawlData) ==
  {0, 1, Len(crawlData.internalLinks) + Len(crawlData.externalLinks)}

\* the URL strings of update requests
NewURLs == {U_sitePage, U_noScheme}

\* the CrawlData of pages with many links; a link is one number here,
\* standing for the characters of a URL string: internal links count from 1,
\* external links from 101
ManyLinks(nInternal, nExternal, distinct) ==
  [NewCrawlData EXCEPT
     !.htmlVersion = "HTML5",
     !.internalLinks = [i \in 1..nInternal |-> <<((i - 1) % distinct) + 1>>],
     !.externalLinks = [i \in 1..nExternal |-> <<101 + ((i - 1) % distinct)>>]]

LongPages == {ManyLinks(52, 0, 52), ManyLinks(49, 3, 2), ManyLinks(2, 2, 1)}

\* the token strings of requests: a token of a user, tokens with one defect
\* each, no JWT at all
Tokens ==
  {[form |-> "jwt", alg |-> "HS256", signed |-> TRUE, expired |-> FALSE, userID |-> u] :
     u \in Users}
    \cup {[form |-> "jwt", alg |-> "HS256", signed |-> TRUE, expired |-> TRUE, userID |-> 1],
          [form |-> "jwt", alg |-> "HS256", signed |-> FALSE, expired |-> FALSE, userID |-> 1],
          [form |-> "jwt", alg |-> "none", signed |-> FALSE, expired |-> FALSE, userID |-> 1],
          GarbageToken}

\* the Authorization headers of requests: none, Bearer with each token and
\* with none, other schemes and spellings with a good token
AuthHeaders ==
  {[scheme |-> <<>>, token |-> NoToken], [scheme |-> S_bearerPrefix, token |-> NoToken]}
    \cup {[scheme |-> S_bearerPrefix, token |-> t] : t \in Tokens}
    \cup {[scheme |-> s, token |-> t] :
            s \in {V_bearerLower, V_basic, V_bearerTwoSpaces},
            t \in {t \in Tokens : ValidateToken(t).ok}}

\* the URL strings of create and update requests on records of several owners
RequestURLs == {U_site} \cup NewURLs

\* the hours after which an issued token is presented: at once, after the
\* access token has expired, after the refresh token has expired
TokenAges == {0, AccessTokenHours + 1, RefreshTokenHours + 1}

\* the access tokens and the refresh tokens issued to the users, at these ages
AccessTokens == {GenerateTokens(u, age).token : u \in Users, age \in TokenAges}

RefreshTokens == {GenerateTokens(u, age).refreshToken : u \in Users, age \in TokenAges}

\* the requests to the protected routes that carry an issued token
TokenHeaders ==
  {[scheme |-> S_bearerPrefix, token |-> t] : t \in AccessTokens \cup RefreshTokens}

\* --------------------------------------------------------------------
\* the whole system: the handlers and the crawl invocations they start

IdleWalk ==
  [url |-> <<>>, doc |-> Document(<<>>), body |-> <<>>, todo |-> <<>>,
   data |-> NewCrawlData, node |-> Document(<<>>)]

Init ==
  /\ urls = [id \in URLIDs |->
               [url |-> U_site, userID |-> 1, status |-> StatusQueued, errorMessage |-> "",
                deleted |-> FALSE]]
  /\ crawls = [c \in CrawlIDs |-> IdleCrawl]
  /\ crawlResults = <<>>
  /\ links = <<>>
  /\ response = [handler |-> "", code |-> 0]
  /\ walk = IdleWalk

\* fetchAndAnalyze's analysis of the page, for each URL string a record can
\* hold
AnalysedPageA ==
  [u \in {U_site} \cup NewURLs |-> Analyze(u, PageA.doc, PageA.body)]

CrawlStep(c) ==
  \/ CrawlFirst(c)
  \/ CrawlSetRunning(c)
  \/ \E net \in FewNets :
       CrawlFetch(c, net, AnalysedPageA[crawls[c].urlEntry.url])
  \/ CrawlSaveFetchError(c)
  \/ \E head \in FewAnswers : CrawlProbe(c, head, NoResponse)
  \/ \E accepted \in BOOLEAN : CrawlCreateResult(c, accepted)
  \/ CrawlSaveCreateError(c)
  \/ CrawlSaveLinks(c, 0)
  \/ CrawlComplete(c)

Next ==
  \/ \E userID \in Users : \E id \in IDParams : StartCrawl(userID, id)
  \/ \E userID \in Users : \E id \in IDParams : StopCrawl(userID, id)
  \/ \E userID \in Users : \E ids \in SUBSET IDParams : BulkStartCrawl(userID, ids)
  \/ \E userID \in Users : \E ids \in SUBSET IDParams : BulkStopCrawl(userID, ids)
  \/ \E userID \in Users : \E id \in IDParams : \E newURL \in NewURLs :
       UpdateURL(userID, id, newURL)
  \/ \E c \in CrawlIDs : CrawlStep(c)

Spec == Init /\ [][Next]_vars

\* --------------------------------------------------------------------
\* the request handlers on several URL records of one user; the crawl
\* invocations they start are not scheduled yet

InitRequests ==
  /\ urls = [id \in 1..NumRequestURLs |->
               [url |-> U_site, userID |-> 1, status |-> StatusQueued, errorMessage |-> "",
                deleted |-> FALSE]]
  /\ crawls = [c \in CrawlIDs |-> IdleCrawl]
  /\ crawlResults = <<>>
  /\ links = <<>>
  /\ response = [handler |-> "", code |-> 0]
  /\ walk = IdleWalk

NextRequests ==
  \/ \E userID \in Users : \E id \in IDParams : StartCrawl(userID, id)
  \/ \E userID \in Users : \E id \in IDParams : StopCrawl(userID, id)
  \/ \E userID \in Users : \E ids \in SUBSET IDParams : BulkStartCrawl(userID, ids)
  \/ \E userID \in Users : \E ids \in SUBSET IDParams : BulkStopCrawl(userID, ids)
  \/ \E userID \in Users : \E id \in IDParams : \E newURL \in NewURLs :
       UpdateURL(userID, id, newURL)

SpecRequests == InitRequests /\ [][NextRequests]_vars

\* --------------------------------------------------------------------
\* one crawl invocation, started for URL 1, on pages with many links

\* the records a start request is accepted for: never crawled, failed before
StartableRecords ==
  {[url |-> U_site, userID |-> 1, status |-> StatusQueued, errorMessage |-> "",
    deleted |-> FALSE],
   [url |-> U_site, userID |-> 1, status |-> StatusError,
    errorMessage |-> HTTPErrorText(404), deleted |-> FALSE]}

InitCrawl ==
  /\ \E record \in StartableRecords : urls = [id \in URLIDs |-> record]
  /\ crawls = [c \in CrawlIDs |->
                 IF c = 1 THEN [IdleCrawl EXCEPT !.pc = "first", !.urlID = 1] ELSE IdleCrawl]
  /\ crawlResults = <<>>
  /\ links = <<>>
  /\ response = [handler |-> "StartCrawl", code |-> StatusOK]
  /\ walk = IdleWalk

NextCrawl ==
  \/ CrawlFirst(1)
  \/ CrawlSetRunning(1)
  \/ \E net \in Nets : \E analysed \in LongPages : CrawlFetch(1, net, analysed)
  \/ CrawlSaveFetchError(1)
  \/ \E head \in Answers : \E get \in GetAnswers(head) : CrawlProbe(1, head, get)
  \/ \E accepted \in BOOLEAN : CrawlCreateResult(1, accepted)
  \/ CrawlSaveCreateError(1)
  \/ \E failAt \in LinkFailures(crawls[1].crawlData) : CrawlSaveLinks(1, failAt)
  \/ CrawlComplete(1)

SpecCrawl == InitCrawl /\ [][NextCrawl]_vars

\* --------------------------------------------------------------------
\* one walk of a parsed page (walkNode), node by node

InitWalk ==
  /\ urls = [id \in URLIDs |->
               [url |-> U_site, userID |-> 1, status |-> StatusQueued, errorMessage |-> "",
                deleted |-> FALSE]]
  /\ crawls = [c \in CrawlIDs |-> IdleCrawl]
  /\ crawlResults = <<>>
  /\ links = <<>>
  /\ response = [handler |-> "", code |-> 0]
  /\ \E in \in WalkInputs :
       walk = [url |-> in.url, doc |-> in.doc, body |-> in.body, todo |-> <<in.doc>>,
               data |-> NewCrawlData, node |-> Document(<<>>)]

\* walkNode enters the next node: the node itself, then its children
WalkStep ==
  /\ walk.todo # <<>>
  /\ LET n == Head(walk.todo)
     IN  walk' = [walk EXCEPT !.data = Visit(n, @, Parse(walk.url).url, walk.body),
                              !.todo = n.children \o Tail(@),
                              !.node = n]
  /\ UNCHANGED <<urls, crawls, crawlResults, links, response>>

NextWalk == WalkStep

SpecWalk == InitWalk /\ [][NextWalk]_vars

\* --------------------------------------------------------------------
\* requests to the routes of the group protected, with any Authorization
\* header; the crawl invocations they start are not scheduled

NextAuth ==
  \/ \E header \in AuthHeaders : \E id \in IDParams :
       Protected(header, StartCrawl(ContextUserID(header), id))
  \/ \E header \in AuthHeaders : \E id \in IDParams :
       Protected(header, StopCrawl(ContextUserID(header), id))
  \/ \E header \in AuthHeaders : \E ids \in SUBSET IDParams :
       Protected(header, BulkStartCrawl(ContextUserID(header), ids))
  \/ \E header \in AuthHeaders : \E ids \in SUBSET IDParams :
       Protected(header, BulkStopCrawl(ContextUserID(header), ids))
  \/ \E header \in AuthHeaders : \E id \in IDParams : \E newURL \in NewURLs :
       Protected(header, UpdateURL(ContextUserID(header), id, newURL))
  \/ \E header \in AuthHeaders : Protected(header, GetURLsStatus(ContextUserID(header)))
  \/ \E header \in AuthHeaders : \E id \in IDParams :
       Protected(header, GetURLStatus(ContextUserID(header), id))

SpecAuth == Init /\ [][NextAuth]_vars

\* --------------------------------------------------------------------
\* one crawl invocation in flight for URL 1, and the requests that start no
\* other: stop, bulk stop and update

NextInFlight ==
  \/ \E userID \in Users : \E id \in IDParams : StopCrawl(userID, id)
  \/ \E userID \in Users : \E ids \in SUBSET IDParams : BulkStopCrawl(userID, ids)
  \/ \E userID \in Users : \E id \in IDParams : \E newURL \in NewURLs :
       UpdateURL(userID, id, newURL)
  \/ CrawlStep(1)

SpecInFlight == InitCrawl /\ [][NextInFlight]_vars

\* --------------------------------------------------------------------
\* the requests of one user on a table that holds a record of another
\* owner; the crawl invocations they start are not scheduled

\* the user the requests are authenticated as
RequestUser == 1

\* the records another user has left in the table: never crawled, or marked
\* running by a bulk start
ForeignRecords ==
  {[url |-> U_site, userID |-> owner, status |-> status, errorMessage |-> "",
    deleted |-> FALSE] :
     owner \in Owners \ {RequestUser}, status \in {StatusQueued, StatusRunning}}

InitURLs ==
  /\ \E record \in ForeignRecords : urls = <<record>>
  /\ crawls = [c \in CrawlIDs |-> IdleCrawl]
  /\ crawlResults = <<>>
  /\ links = <<>>
  /\ response = [handler |-> "", code |-> 0]
  /\ walk = IdleWalk

\* a request of the user
RequestAs(userID) ==
  \/ \E url \in RequestURLs : CreateURL(userID, url)
  \/ \E id \in IDParams : \E newURL \in RequestURLs : UpdateURL(userID, id, newURL)
  \/ \E id \in IDParams : DeleteURL(userID, id)
  \/ \E ids \in SUBSET IDParams : BulkDeleteURLs(userID, ids)
  \/ \E id \in IDParams : StartCrawl(userID, id)
  \/ \E id \in IDParams : StopCrawl(userID, id)
  \/ \E ids \in SUBSET IDParams : BulkStartCrawl(userID, ids)
  \/ \E ids \in SUBSET IDParams : BulkStopCrawl(userID, ids)

NextURLs == RequestAs(RequestUser)

SpecURLs == InitURLs /\ [][NextURLs]_vars

\* --------------------------------------------------------------------
\* requests that present the tokens of generateTokens: to the refresh
\* endpoint and, in the Authorization header, to routes of the group
\* protected

NextTokens ==
  \/ \E t \in AccessTokens \cup RefreshTokens \cup {NoToken, GarbageToken} : RefreshToken(t)
  \/ \E header \in TokenHeaders : \E id \in IDParams :
       Protected(header, StartCrawl(ContextUserID(header), id))
  \/ \E header \in TokenHeaders : \E id \in IDParams :
       Protected(header, StopCrawl(ContextUserID(header), id))
  \/ \E header \in TokenHeaders : \E ids \in SUBSET IDParams :
       Protected(header, BulkStartCrawl(ContextUserID(header), ids))
  \/ \E header \in TokenHeaders : \E ids \in SUBSET IDParams :
       Protected(header, BulkStopCrawl(ContextUserID(header), ids))
  \/ \E header \in TokenHeaders : \E id \in IDParams : \E newURL \in NewURLs :
       Protected(header, UpdateURL(ContextUserID(header), id, newURL))
  \/ \E header \in TokenHeaders : Protected(header, GetURLsStatus(ContextUserID(header)))
  \/ \E header \in TokenHeaders : \E id \in IDParams :
       Protected(header, GetURLStatus(ContextUserID(header), id))

SpecTokens == Init /\ [][NextTokens]_vars
\* ====================================================================
\* The properties of the start and stop handlers

\* C1: a start request for a URL whose stored status is Running is answered
\* with the conflict status, launches no crawl invocation and leaves the
\* URL records (status, error message) as they were.
C1_StartOfRunningIsConflict ==
  [][\A userID \in Users : \A id \in IDParams :
       (StartCrawl(userID, id) /\ Found(userID, id) /\ urls[id].status = StatusRunning)
         => /\ response' = [handler |-> "StartCrawl", code |-> StatusConflict]
            /\ crawls' = crawls
            /\ urls' = urls]_vars

\* a start request has been answered with the conflict while the URL is
\* Running and a crawl slot was free to launch
C1_Witness ==
  /\ response = [handler |-> "StartCrawl", code |-> StatusConflict]
  /\ \E id \in DOMAIN urls : urls[id].status = StatusRunning
  /\ \E c \in CrawlIDs : crawls[c].pc = "idle"

\* the record of id after the step is the stopped one
C2_Stopped(id) ==
  /\ urls'[id].status = StatusQueued
  /\ urls'[id].errorMessage = "Crawling stopped by user"
  /\ urls'[id].url = urls[id].url
  /\ urls'[id].userID = urls[id].userID

\* what C2 says of one stop request that names the record id of the caller
C2_AsStated(id) ==
  IF urls[id].status = StatusRunning
    THEN C2_Stopped(id)
    ELSE response'.code = StatusConflict /\ urls'[id] = urls[id]

\* C2 as stated: every stop request, single or bulk, for a URL that is
\* Running sets it to Queued with the message "Crawling stopped by user",
\* and for a URL in any other status is answered with the conflict status
\* and leaves the record unchanged.
C2_EveryStopOfNotRunningIsConflict ==
  [][\A userID \in Users : \A id \in DOMAIN urls :
       /\ (StopCrawl(userID, id) /\ Found(userID, id)) => C2_AsStated(id)
       /\ \A ids \in SUBSET IDParams :
            (id \in ids /\ BulkStopCrawl(userID, ids) /\ Found(userID, id))
              => C2_AsStated(id)]_vars

\* C2 amended: a single stop request for a Running URL sets it to Queued
\* with the message "Crawling stopped by user" and for a URL in any other
\* status is answered with the conflict status, the record unchanged.  A
\* bulk stop request sets the Running URLs it names to Queued with the same
\* message and leaves the other URLs it names unchanged; it is answered with
\* the bad-request status, not a conflict, when none of its URLs is Running.
C2_StopSingleAndBulk ==
  [][\A userID \in Users : \A id \in DOMAIN urls :
       /\ (StopCrawl(userID, id) /\ Found(userID, id))
            => IF urls[id].status = StatusRunning
                 THEN /\ C2_Stopped(id)
                      /\ response' = [handler |-> "StopCrawl", code |-> StatusOK]
                 ELSE /\ response' = [handler |-> "StopCrawl", code |-> StatusConflict]
                      /\ urls' = urls
       /\ \A ids \in SUBSET IDParams :
            (id \in ids /\ BulkStopCrawl(userID, ids) /\ Found(userID, id))
              => /\ IF urls[id].status = StatusRunning
                      THEN C2_Stopped(id)
                      ELSE urls'[id] = urls[id]
                 /\ response'.code =
                      IF \E j \in ids : Found(userID, j) /\ urls[j].status = StatusRunning
                        THEN StatusOK ELSE StatusBadRequest]_vars

\* a bulk stop has stopped one URL and left another, not Running, as it was
C2_Witness ==
  /\ response = [handler |-> "BulkStopCrawl", code |-> StatusOK]
  /\ \E id \in DOMAIN urls :
       urls[id].status = StatusQueued /\ urls[id].errorMessage = "Crawling stopped by user"
  /\ \E id \in DOMAIN urls :
       urls[id].status = StatusQueued /\ urls[id].errorMessage = ""

\* ====================================================================
\* The properties of one crawl invocation

\* the redirect chain of the primary fetch is cut by the client
C3_RedirectLimitExceeded(net) == \E k \in 1..net.redirects : CheckRedirectStops(k)

\* the primary fetch fails: network error or timeout, redirect limit
\* exceeded, final status >= 400
C3_PrimaryFetchFails(net) ==
  net.fail # "" \/ C3_RedirectLimitExceeded(net) \/ net.status >= 400

\* C3: when the primary fetch of a crawl invocation has failed (network
\* error, timeout, redirect limit exceeded, final status >= 400), the
\* invocation ends with the URL status Error and the failure message stored
\* (for a final status >= 400 the message names that status); it has created
\* no CrawlResult row and no link row and has probed no link.  The storage
\* takes the status updates of the invocation here.
C3_FetchFailureEndsInError ==
  \A c \in CrawlIDs :
    (crawls[c].pc = "done" /\ C3_PrimaryFetchFails(crawls[c].fetched))
      => /\ urls[crawls[c].urlID].status = StatusError
         /\ crawls[c].err # ""
         /\ urls[crawls[c].urlID].errorMessage = crawls[c].err
         /\ (crawls[c].fetched.fail = "" /\ ~C3_RedirectLimitExceeded(crawls[c].fetched))
              => urls[crawls[c].urlID].errorMessage
                   = HTTPErrorText(crawls[c].fetched.status)
         /\ crawls[c].crawlResultID = 0
         /\ crawls[c].probed = <<>>
         /\ crawlResults = <<>>
         /\ links = <<>>

\* scenario C: the fetch was answered 404 and the invocation has ended
C3_Witness ==
  /\ crawls[1].pc = "done"
  /\ crawls[1].fetched.fail = ""
  /\ crawls[1].fetched.redirects = 0
  /\ crawls[1].fetched.status = 404
  /\ urls[1].status = StatusError

\* the primary fetch succeeds: a response with status < 400 whose body is read
C4_PrimaryFetchSucceeds(net) ==
  /\ net.fail = ""
  /\ ~C3_RedirectLimitExceeded(net)
  /\ net.status # NoResponse
  /\ net.status < 400
  /\ ~net.bodyFails

\* C4: when the primary fetch has succeeded and the crawl result is stored,
\* the invocation ends with the URL status Completed and the error message
\* cleared, whatever the probes gave; while and after the links are probed
\* the status is not Error, and an invocation whose fetch succeeded ends
\* without a result only because the storage rejected the result row.  The
\* storage takes the status updates of the invocation here.
C4_SuccessEndsInCompleted ==
  \A c \in CrawlIDs :
    /\ (crawls[c].pc = "done" /\ crawls[c].crawlResultID # 0)
         => /\ urls[crawls[c].urlID].status = StatusCompleted
            /\ urls[crawls[c].urlID].errorMessage = ""
            /\ crawls[c].err = ""
    /\ (crawls[c].pc = "done" /\ C4_PrimaryFetchSucceeds(crawls[c].fetched)
          /\ crawls[c].crawlResultID = 0)
         => crawls[c].err = CreateResultError
    /\ crawls[c].pc \in {"probe", "create", "saveLinks", "complete"}
         => urls[crawls[c].urlID].status = StatusRunning

\* an invocation has ended Completed with a stored result that counts a
\* broken link
C4_Witness ==
  /\ crawls[1].pc = "done"
  /\ crawls[1].crawlResultID # 0
  /\ crawlResults[crawls[1].crawlResultID].brokenLinks > 0
  /\ urls[1].status = StatusCompleted

\* C5 as stated, its first part: whenever a step moves a URL to Running, a
\* crawl invocation for that URL is in flight after the step (launched by
\* the start request that was accepted for it).
C5_RunningHasInvocation ==
  [][\A id \in DOMAIN urls :
       (urls[id].status # StatusRunning /\ urls'[id].status = StatusRunning)
         => \E c \in CrawlIDs :
              crawls'[c].urlID = id /\ crawls'[c].pc \notin {"idle", "done"}]_vars

\* the concatenation the accessibility checker starts from
C6_Concatenation(c) == crawls[c].crawlData.internalLinks \o crawls[c].crawlData.externalLinks

\* C6: in one crawl invocation at most 50 links are probed, the links probed
\* so far are a prefix of internal links followed by external links
\* (duplicates included), and when the probing is over they are exactly the
\* first min(50, n) entries of it.
C6_ProbesFirstFifty ==
  \A c \in CrawlIDs :
    /\ Len(crawls[c].probed) <= 50
    /\ crawls[c].pc \in {"probe", "create", "saveCreateError", "saveLinks", "complete"}
         => /\ Len(crawls[c].probed) <= Len(C6_Concatenation(c))
            /\ crawls[c].probed = SubSeq(C6_Concatenation(c), 1, Len(crawls[c].probed))
    /\ crawls[c].pc \in {"create", "saveCreateError", "saveLinks", "complete"}
         => Len(crawls[c].probed) = Min(50, Len(C6_Concatenation(c)))

\* the probing of a page with 49 internal and 3 external links is over
C6_Witness ==
  /\ crawls[1].pc = "create"
  /\ Len(crawls[1].crawlData.internalLinks) = 49
  /\ Len(crawls[1].crawlData.externalLinks) = 3
  /\ Len(crawls[1].probed) = 50
  /\ crawls[1].probed[50] = crawls[1].crawlData.externalLinks[1]

\* C7: a probed link is reported broken if and only if the final status
\* observed is >= 400 or both the HEAD and the GET fail; the HEAD is always
\* sent and the GET is sent only when the HEAD got no response.
C7_BrokenIffFinalStatusOrBothFail ==
  \A c \in CrawlIDs :
    crawls[c].lastProbe # NoProbe
      => /\ crawls[c].lastProbe.broken
              <=> \/ (IF crawls[c].lastProbe.head # NoResponse
                        THEN crawls[c].lastProbe.head
                        ELSE crawls[c].lastProbe.get) >= 400
                  \/ /\ crawls[c].lastProbe.head = NoResponse
                     /\ crawls[c].lastProbe.get = NoResponse
         /\ crawls[c].lastProbe.sent
              = IF crawls[c].lastProbe.head = NoResponse
                  THEN <<"HEAD", "GET">> ELSE <<"HEAD">>

\* a link whose HEAD got no response and whose GET was answered 200 has
\* been reported not broken
C7_Witness ==
  /\ crawls[1].lastProbe.head = NoResponse
  /\ crawls[1].lastProbe.get = 200
  /\ ~crawls[1].lastProbe.broken
  /\ crawls[1].lastProbe.sent = <<"HEAD", "GET">>

C9_AtAnchor ==
  /\ walk.todo # <<>>
  /\ Head(walk.todo).type = "element"
  /\ Head(walk.todo).data = "a"
  /\ HasHref(Head(walk.todo))

\* the link sequences after the step are those before it
C9_NoLinkAdded ==
  /\ walk'.data.internalLinks = walk.data.internalLinks
  /\ walk'.data.externalLinks = walk.data.externalLinks

\* the step appends the resolved link to the internal sequence if its host
\* is the page's or empty, to the external sequence otherwise
C9_LinkAdded(resolved, base) ==
  IF resolved.host = base.host \/ resolved.host = <<>>
    THEN /\ walk'.data.internalLinks = Append(walk.data.internalLinks, String(resolved))
         /\ walk'.data.externalLinks = walk.data.externalLinks
    ELSE /\ walk'.data.externalLinks = Append(walk.data.externalLinks, String(resolved))
         /\ walk'.data.internalLinks = walk.data.internalLinks

\* what C9 says of the href of the anchor entered, on a page fetched from base
C9_Categorized(href, base) ==
  IF href = <<>> \/ Head(href) = "#" \/ HasPrefix(href, S_javascript)
    THEN C9_NoLinkAdded
    ELSE Parse(href).ok => C9_LinkAdded(ResolveReference(base, Parse(href).url), base)

RECURSIVE C10_Descendants(_)
\* the nodes below n, at any depth
C10_Descendants(n) ==
  UNION {{n.children[i]} \cup C10_Descendants(n.children[i]) : i \in 1..Len(n.children)}

\* the input elements below the form
C10_Inputs(form) ==
  {n \in C10_Descendants(form) : n.type = "element" /\ n.data = "input"}

\* the lower-cased values of the attributes key of n
C10_Values(n, key) ==
  {ToLower(n.attr[i].val) : i \in {j \in 1..Len(n.attr) : n.attr[j].key = key}}

\* some descendant input has type password, and some descendant input has
\* a name containing user, email or login, or has type email
C10_Qualifies(form) ==
  /\ \E n \in C10_Inputs(form) : S_password \in C10_Values(n, "type")
  /\ \E n \in C10_Inputs(form) :
       \/ \E name \in C10_Values(n, "name") :
            Contains(name, S_user) \/ Contains(name, S_email) \/ Contains(name, S_login)
       \/ S_email \in C10_Values(n, "type")

\* C10: isLoginForm is true for a form if and only if some descendant input
\* has type "password" (in any letter case) and some descendant input has a
\* name containing "user", "email" or "login" (in any letter case) or has
\* type "email"; inputs at any depth below the form count.  Stated of the
\* form the walk has just entered: a form that qualifies has set the flag
\* of the walk.
C10_LoginFormIff ==
  (walk.node.type = "element" /\ walk.node.data = "form")
    => /\ IsLoginForm(walk.node) <=> C10_Qualifies(walk.node)
       /\ C10_Qualifies(walk.node) => walk.data.hasLoginForm

\* a form qualified by a password input nested below the form and an input
\* of type Email, none of them with both marks
C10_Witness ==
  /\ walk.node.type = "element" /\ walk.node.data = "form"
  /\ walk.data.hasLoginForm
  /\ \A i \in 1..Len(walk.node.children) :
       S_password \notin C10_Values(walk.node.children[i], "type")
  /\ \A n \in C10_Inputs(walk.node) :
       C10_Values(n, "name") \subseteq {V_q}

\* ====================================================================
\* The properties of the analysis of a page

\* the form has inputs, and each of them is of type password (in any
\* letter case)
C11_OnlyPasswordInputs(form) ==
  /\ C10_Inputs(form) # {}
  /\ \A n \in C10_Inputs(form) : LastAttrLower(n, "type") = S_password

\* C11 as stated: a form that contains password-type input fields and no
\* other input field is never reported as a login form.  Stated of the form
\* the walk has just entered.
C11_PasswordAloneNeverQualifies ==
  (walk.node.type = "element" /\ walk.node.data = "form"
     /\ C11_OnlyPasswordInputs(walk.node))
    => /\ ~IsLoginForm(walk.node)
       /\ ~walk.data.hasLoginForm

\* the walk has entered its first node
C12_Started == walk.todo # <<walk.doc>>

\* sub occurs in s: at some position the characters of s are those of sub
C12_Has(s, sub) ==
  \E i \in 0..(Len(s) - Len(sub)) : \A k \in 1..Len(sub) : s[i + k] = sub[k]

\* at position i of s begins a doctype declaration that begins with html:
\* <!doctype, white space up to position j, html
C12_DoctypeAt(s, i, j) ==
  /\ \A k \in 1..Len(S_doctype) : s[i + k - 1] = S_doctype[k]
  /\ \A k \in (i + Len(S_doctype))..(j - 1) : s[k] \in {" ", "\t", "\n", "\f", "\r"}
  /\ \A k \in 1..Len(S_html) : s[j + k - 1] = S_html[k]

C12_DoctypeBeginsWithHtml(s) ==
  \E i \in 1..(Len(s) - Len(S_doctype) - Len(S_html)) :
    \E j \in (i + Len(S_doctype) + 1)..(Len(s) - Len(S_html) + 1) : C12_DoctypeAt(s, i, j)

\* the checks of C12 in their order, on the lower-cased text
C12_Checks(lower) ==
  <<C12_Has(lower, S_doctypeHtml5), C12_Has(lower, S_html401),
    C12_Has(lower, S_xhtml10), C12_Has(lower, S_xhtml11),
    C12_DoctypeBeginsWithHtml(lower)>>

C12_Labels == <<"HTML5", "HTML 4.01", "XHTML 1.0", "XHTML 1.1", "HTML">>

\* the label of the first check that matches, "Unknown" if none does
C12_LabelOf(checks) ==
  IF \E i \in 1..5 : checks[i]
    THEN C12_Labels[CHOOSE i \in 1..5 : checks[i] /\ \A j \in 1..(i - 1) : ~checks[j]]
    ELSE "Unknown"

\* the label C12 gives to a body
C12_Label(body) == C12_LabelOf(CHOOSE checks \in {C12_Checks(ToLower(body))} : TRUE)

\* C12: detectHTMLVersion applies its checks to the lower-cased full text in
\* a fixed order and the first match wins: "<!doctype html>" gives HTML5,
\* else "html 4.01" gives HTML 4.01, else "xhtml 1.0" gives XHTML 1.0, else
\* "xhtml 1.1" gives XHTML 1.1, else a doctype declaration that begins with
\* html gives HTML, otherwise Unknown.  The version of a crawl is this label
\* of the raw body from the first node of the walk on, whatever the tree is.
C12_VersionByOrderedChecks ==
  \E label \in {C12_Label(walk.body)} :
    /\ DetectHTMLVersion(walk.body) = label
    /\ C12_Started => walk.data.htmlVersion = label

\* the walk of a page is over whose body names XHTML 1.1 before XHTML 1.0:
\* the check for XHTML 1.0 comes first
C12_Witness ==
  /\ walk.todo = <<>>
  /\ walk.doc # Document(<<>>)
  /\ walk.body = B_xhtml11Then10
  /\ walk.data.htmlVersion = "XHTML 1.0"

\* C13 as stated: detectHTMLVersion gives HTML5 for every body that contains
\* <!doctype html> in any letter case, and Unknown for every body that
\* contains no doctype fragment (no <!doctype in any letter case).
C13_Html5AndUnknown ==
  \E lower \in {ToLower(walk.body)} :
    /\ C12_Has(lower, S_doctypeHtml5) => DetectHTMLVersion(walk.body) = "HTML5"
    /\ ~C12_Has(lower, S_doctype) => DetectHTMLVersion(walk.body) = "Unknown"

RECURSIVE C14_Titles(_)
\* the title elements below the nodes, in the order of the depth-first
\* traversal
C14_Titles(nodes) ==
  IF nodes = <<>> THEN <<>>
  ELSE (IF Head(nodes).type = "element" /\ Head(nodes).data = "title"
          THEN <<Head(nodes)>> ELSE <<>>)
         \o C14_Titles(Head(nodes).children) \o C14_Titles(Tail(nodes))

\* the whitespace-trimmed text of a title element
C14_Text(title) ==
  IF title.children = <<>> THEN <<>> ELSE TrimSpace(title.children[1].data)

\* C14 as stated: after the analysis of a document the title is the
\* whitespace-trimmed text of the first title element of the depth-first
\* traversal, also when further title elements follow it, and it is empty
\* when the document has no title element.
C14_TitleOfFirstElement ==
  walk.todo = <<>>
    => walk.data.title
         = IF C14_Titles(<<walk.doc>>) = <<>> THEN <<>>
           ELSE C14_Text(C14_Titles(<<walk.doc>>)[1])

RECURSIVE C15_Count(_, _)
\* the number of elements with a tag of levels among the nodes and below them
C15_Count(nodes, levels) ==
  IF nodes = <<>> THEN 0
  ELSE (IF Head(nodes).type = "element" /\ Head(nodes).data \in levels THEN 1 ELSE 0)
         + C15_Count(Head(nodes).children, levels) + C15_Count(Tail(nodes), levels)

\* the counts of the row cr are those of the document
C15_CountsOf(cr, doc) ==
  /\ cr.h1Count = C15_Count(<<doc>>, {"h1"})
  /\ cr.h2Count = C15_Count(<<doc>>, {"h2"})
  /\ cr.h3Count = C15_Count(<<doc>>, {"h3"})
  /\ cr.h4Count = C15_Count(<<doc>>, {"h4"})
  /\ cr.h5Count = C15_Count(<<doc>>, {"h5"})
  /\ cr.h6Count = C15_Count(<<doc>>, {"h6"})
  /\ GetTotalHeadings(cr) = C15_Count(<<doc>>, HeadingTags)
  /\ C15_Count(<<doc>>, HeadingTags) = 0 => GetTotalHeadings(cr) = 0

\* C15: for every parsed document the counts h1Count .. h6Count that CrawlURL
\* stores add up to the number of h1..h6 elements of the document tree, and
\* the count of each level is the number of elements of that level, at any
\* depth and with any attributes; without headings all counts are zero.
\* Stated of the row CrawlURL fills from the data of a finished walk.
C15_HeadingCounts ==
  walk.todo = <<>> => C15_CountsOf(NewCrawlResult(1, walk.data, <<>>), walk.doc)

\* the walk of a page is over that has headings below other headings and
\* below a form: two h2, two h6, one h5
C15_Witness ==
  /\ walk.todo = <<>>
  /\ walk.data.headingCounts["h2"] = 2
  /\ walk.data.headingCounts["h6"] = 2
  /\ walk.data.headingCounts["h5"] = 1
  /\ C15_Count(<<walk.doc>>, HeadingTags) = 5

\* ====================================================================
\* Further properties of one crawl invocation

\* the link rows stored for the result row of invocation c
C16_StoredLinks(c) ==
  Cardinality({i \in 1..Len(links) : links[i].crawlResultID = crawls[c].crawlResultID})

\* the storage has rejected a write of the result of invocation c: the
\* result row itself, or one of the link rows the result row counts
C16_ResultWriteRejected(c) ==
  \/ C4_PrimaryFetchSucceeds(crawls[c].fetched) /\ crawls[c].crawlResultID = 0
  \/ /\ crawls[c].crawlResultID # 0
     /\ C16_StoredLinks(c) < crawlResults[crawls[c].crawlResultID].internalLinks
                               + crawlResults[crawls[c].crawlResultID].externalLinks

\* C16 as stated, for the writes of the crawl result: whenever the storage
\* has rejected the result row or a link row, the invocation that has ended
\* reports a failure and the URL has not ended in Completed.
C16_PersistenceFailureIsFatal ==
  \A c \in CrawlIDs :
    (crawls[c].pc = "done" /\ C16_ResultWriteRejected(c))
      => /\ crawls[c].err # ""
         /\ urls[crawls[c].urlID].status # StatusCompleted

\* the stages of CrawlURL in their order; the two error branches end the
\* invocation after the stage that failed
C17_Stage(pc) ==
  CASE pc = "idle" -> 0
    [] pc = "first" -> 1
    [] pc = "setRunning" -> 2
    [] pc = "fetch" -> 3
    [] pc = "saveFetchError" -> 4
    [] pc = "probe" -> 5
    [] pc = "create" -> 6
    [] pc = "saveCreateError" -> 7
    [] pc = "saveLinks" -> 7
    [] pc = "complete" -> 8
    [] pc = "done" -> 9

\* the links invocation c has to probe
C17_ToProbe(c) ==
  AllLinks(crawls[c].crawlData.internalLinks, crawls[c].crawlData.externalLinks)

\* what C17 says of one step, for invocation c (the step is one of c when
\* it changes the variables of c)
C17_StepInSequence(c) ==
  /\ C17_Stage(crawls'[c].pc) >= C17_Stage(crawls[c].pc)
  \* the tree is walked in the step of the fetch, after the fetch succeeded
  /\ crawls'[c].crawlData # crawls[c].crawlData /\ crawls'[c].pc # "done"
       => crawls[c].pc = "fetch" /\ C4_PrimaryFetchSucceeds(crawls'[c].fetched)
  \* a probe comes after the fetch, one link in a turn, in the order of the links
  /\ crawls'[c].probed # crawls[c].probed
       => /\ crawls[c].pc = "probe"
          /\ C4_PrimaryFetchSucceeds(crawls[c].fetched)
          /\ Len(crawls[c].probed) < Len(C17_ToProbe(c))
          /\ crawls'[c].probed
               = Append(crawls[c].probed, C17_ToProbe(c)[Len(crawls[c].probed) + 1])
          /\ crawls'[c].lastProbe.link = C17_ToProbe(c)[Len(crawls[c].probed) + 1]
          /\ crawlResults' = crawlResults /\ links' = links
  \* the result is stored after the last probe
  /\ (crawls'[c] # crawls[c] /\ (crawlResults' # crawlResults \/ links' # links))
       => /\ crawls[c].pc \in {"create", "saveLinks"}
          /\ crawls[c].probed = C17_ToProbe(c)
          /\ crawls'[c].probed = crawls[c].probed

\* C17: within one crawl invocation the stages run strictly in sequence
\* (fetch, then tree traversal, then probing, then persistence) and at most
\* one link probe is outstanding at any time: a turn of the probe loop
\* handles one link, request, answer and delay, and the probe of the next
\* link begins in a later turn, after it.
C17_StagesInSequence == [][\A c \in CrawlIDs : C17_StepInSequence(c)]_vars

\* an invocation has ended that probed fifty links, one after the other,
\* and then stored its result and its link rows
C17_Witness ==
  /\ crawls[1].pc = "done"
  /\ Len(crawls[1].probed) = 50
  /\ crawls[1].crawlResultID # 0
  /\ Len(links) >= 51

\* the error of CrawlURL when the client has cut the redirect chain
C18_RedirectLimitError == "failed to fetch URL: stopped after 10 redirects"

\* C18 as stated: the primary fetch allows a chain of up to 10 redirects.  An
\* invocation whose fetch met k <= 10 redirects and then a readable response
\* with a status < 400, and no network failure, has not failed in the fetch
\* (it ends without error, or with the error of a rejected result row); the
\* fetch fails with the redirect-limit error only for chains of more than
\* 10 redirects.
C18_TenRedirectsAllowed ==
  \A c \in CrawlIDs :
    (crawls[c].pc = "done" /\ crawls[c].fetched.fail = "")
      => /\ ( /\ crawls[c].fetched.redirects <= 10
              /\ crawls[c].fetched.status # NoResponse
              /\ crawls[c].fetched.status < 400
              /\ ~crawls[c].fetched.bodyFails )
              => crawls[c].err \in {"", CreateResultError}
         /\ crawls[c].err = C18_RedirectLimitError => crawls[c].fetched.redirects > 10

\* the link rows stored for the crawl result
C26_Rows(crawlResultID) ==
  {i \in 1..Len(links) : links[i].crawlResultID = crawlResultID}

\* C26: for every stored crawl result whose link records were all written,
\* brokenLinks equals the number of its link records with isBroken = true,
\* for every link list, including lists with repeated links and lists longer
\* than 50.
C26_BrokenCountIsBrokenRows ==
  \A c \in CrawlIDs :
    ( /\ crawls[c].pc = "complete"
      /\ Cardinality(C26_Rows(crawls[c].crawlResultID)) = Len(C6_Concatenation(c)) )
      => crawlResults[crawls[c].crawlResultID].brokenLinks
           = Cardinality({i \in C26_Rows(crawls[c].crawlResultID) : links[i].isBroken})

\* ====================================================================
\* The properties of the routes

\* the header carries a valid Bearer JWT: the scheme Bearer, and a JWT
\* signed with an HMAC method and the secret of the server that has not
\* expired
C19_ValidBearer(header) ==
  /\ header.scheme = S_bearerPrefix
  /\ header.token.form = "jwt"
  /\ header.token.alg \in {"HS256", "HS384", "HS512"}
  /\ header.token.signed
  /\ ~header.token.expired

\* the step is the answer 401 of AuthRequired: no handler has answered, no
\* URL record has changed, no crawl was launched, nothing was stored
C19_Aborted ==
  /\ response' = [handler |-> "AuthRequired", code |-> StatusUnauthorized]
  /\ urls' = urls
  /\ crawls' = crawls
  /\ crawlResults' = crawlResults
  /\ links' = links

\* what C19 says of the requests with this header to the routes
C19_RoutesAbort(header) ==
  /\ \A id \in IDParams :
       Protected(header, StartCrawl(ContextUserID(header), id)) => C19_Aborted
  /\ \A id \in IDParams :
       Protected(header, StopCrawl(ContextUserID(header), id)) => C19_Aborted
  /\ \A ids \in SUBSET IDParams :
       Protected(header, BulkStartCrawl(ContextUserID(header), ids)) => C19_Aborted
  /\ \A ids \in SUBSET IDParams :
       Protected(header, BulkStopCrawl(ContextUserID(header), ids)) => C19_Aborted
  /\ \A id \in IDParams : \A newURL \in NewURLs :
       Protected(header, UpdateURL(ContextUserID(header), id, newURL)) => C19_Aborted
  /\ Protected(header, GetURLsStatus(ContextUserID(header))) => C19_Aborted
  /\ \A id \in IDParams :
       Protected(header, GetURLStatus(ContextUserID(header), id)) => C19_Aborted

\* C19: no handler of the protected routes runs for a request without a
\* valid Bearer JWT: AuthRequired answers it with 401 and aborts it, so the
\* request changes no URL record and launches no crawl.
C19_NoHandlerWithoutToken ==
  [][\A header \in AuthHeaders : ~C19_ValidBearer(header) => C19_RoutesAbort(header)]_vars

\* a request without a valid token was answered 401 while a URL of a user
\* is Running and its crawl was launched
C19_Witness ==
  /\ response = [handler |-> "AuthRequired", code |-> StatusUnauthorized]
  /\ \E id \in DOMAIN urls : urls[id].status = StatusRunning
  /\ \E c \in CrawlIDs : crawls[c].pc = "first"

\* what C20 says of the row of the record id in the table of its owner
C20_Row(userID, id) ==
  /\ RowAction(urls[id].status) = "Stop" <=> urls[id].status = StatusRunning
  /\ urls[id].status \in {StatusQueued, StatusCompleted, StatusError}
       => RowAction(urls[id].status) = "Start"
  /\ (RowAction(urls[id].status) = "Start" /\ StartCrawl(userID, id))
       => response' = [handler |-> "StartCrawl", code |-> StatusOK]
  /\ (RowAction(urls[id].status) = "Stop" /\ StopCrawl(userID, id))
       => response' = [handler |-> "StopCrawl", code |-> StatusOK]

\* C20: for every URL row the table offers Stop exactly when the status of
\* the row is running and Start for every other status (queued, completed,
\* error), and the request of the action offered for the status shown,
\* sent while the record has that status, is accepted by the backend.
C20_OfferedActionAccepted ==
  [][\A userID \in Users : \A id \in DOMAIN urls :
       Found(userID, id) => C20_Row(userID, id)]_vars

\* a start request was accepted for a URL whose row shows completed: an
\* invocation has ended, another one is launched
C20_Witness ==
  /\ response = [handler |-> "StartCrawl", code |-> StatusOK]
  /\ \E id \in DOMAIN urls : urls[id].status = StatusCompleted
  /\ \E c \in CrawlIDs : crawls[c].pc = "done" /\ crawls[c].err = ""
  /\ \E c \in CrawlIDs : crawls[c].pc = "first"

\* ====================================================================
\* The link sequences of a walk and the form flag

RECURSIVE C21_Hrefs(_)
\* the hrefs of the a elements among the nodes of the stack and below them,
\* in the order of the document
C21_Hrefs(todo) ==
  IF todo = <<>> THEN <<>>
  ELSE (IF Head(todo).type = "element" /\ Head(todo).data = "a" /\ HasHref(Head(todo))
          THEN <<FirstHref(Head(todo))>> ELSE <<>>)
         \o C21_Hrefs(Head(todo).children \o Tail(todo))

\* the hrefs of the anchors the walk has entered so far
C21_Visited ==
  SubSeq(C21_Hrefs(<<walk.doc>>), 1,
         Len(C21_Hrefs(<<walk.doc>>)) - Len(C21_Hrefs(walk.todo)))

\* the anchor is not ignored: its href is not empty, no fragment, no
\* javascript: href, and it parses
C21_Kept(href) ==
  /\ ~(href = <<>> \/ Head(href) = "#" \/ HasPrefix(href, S_javascript))
  /\ Parse(href).ok

\* the absolute URL the href stands for on the page of the walk
C21_Resolved(href) == ResolveReference(Parse(walk.url).url, Parse(href).url)

C21_OfPage(href) ==
  C21_Resolved(href).host = Parse(walk.url).url.host \/ C21_Resolved(href).host = <<>>

\* how often the sequence holds the link
C21_Times(seq, link) == Cardinality({i \in 1..Len(seq) : seq[i] = link})

\* among the anchors kept, those that name the link, and are links of the
\* page (internal) or not
C21_Naming(visited, link, internal) ==
  {i \in 1..Len(visited) :
     /\ C21_Kept(visited[i])
     /\ String(C21_Resolved(visited[i])) = link
     /\ C21_OfPage(visited[i]) = internal}

C21_Sequences(visited) ==
  /\ \A i \in {j \in 1..Len(visited) : C21_Kept(visited[j])} :
       \E link \in {String(C21_Resolved(visited[i]))} :
         /\ C21_Times(walk.data.internalLinks, link)
              = Cardinality(C21_Naming(visited, link, TRUE))
         /\ C21_Times(walk.data.externalLinks, link)
              = Cardinality(C21_Naming(visited, link, FALSE))
  /\ Len(walk.data.internalLinks) + Len(walk.data.externalLinks)
       = Cardinality({j \in 1..Len(visited) : C21_Kept(visited[j])})

\* C21: link sequences are never deduplicated: a link that is named by k of
\* the anchors the walk has entered is k times in its sequence; the counts
\* internalLinks and externalLinks that CrawlURL stores for the data of the
\* walk are the lengths of the two sequences, and the sum of the lengths is
\* the number of anchors that were not ignored.
C21_LinksNeverDeduplicated ==
  /\ \E visited \in {C21_Visited} : C21_Sequences(visited)
  /\ NewCrawlResult(1, walk.data, <<>>).internalLinks = Len(walk.data.internalLinks)
  /\ NewCrawlResult(1, walk.data, <<>>).externalLinks = Len(walk.data.externalLinks)

\* a finished walk of a page with ignored anchors that named one internal
\* link three times and one external link twice
C21_Witness ==
  /\ walk.todo = <<>>
  /\ \E i \in 1..Len(walk.data.internalLinks) :
       C21_Times(walk.data.internalLinks, walk.data.internalLinks[i]) = 3
  /\ \E i \in 1..Len(walk.data.externalLinks) :
       C21_Times(walk.data.externalLinks, walk.data.externalLinks[i]) = 2
  /\ Len(C21_Hrefs(<<walk.doc>>))
       > Len(walk.data.internalLinks) + Len(walk.data.externalLinks)

RECURSIVE C22_Forms(_)
\* the form elements among the nodes of the stack and below them, in the
\* order of the document
C22_Forms(todo) ==
  IF todo = <<>> THEN <<>>
  ELSE (IF Head(todo).type = "element" /\ Head(todo).data = "form"
          THEN <<Head(todo)>> ELSE <<>>)
         \o C22_Forms(Head(todo).children \o Tail(todo))

\* the forms the walk has entered so far
C22_Entered ==
  SubSeq(C22_Forms(<<walk.doc>>), 1,
         Len(C22_Forms(<<walk.doc>>)) - Len(C22_Forms(walk.todo)))

\* the flag is the OR over the forms entered
C22_FlagIsOr ==
  walk.data.hasLoginForm
    <=> \E i \in 1..Len(C22_Entered) : C10_Qualifies(C22_Entered[i])

\* C22: the login-form flag of a crawl is the OR over all forms of the
\* document: at every point of the walk the flag is true if and only if
\* one of the forms entered so far qualifies, and no step of the walk
\* resets a flag that is true.
C22_FlagIsOrOverForms ==
  /\ []C22_FlagIsOr
  /\ [][walk.data.hasLoginForm => walk'.data.hasLoginForm]_vars

\* a finished walk of a page with three forms that set the flag at the
\* second: the first and the last do not qualify
C22_Witness ==
  /\ walk.todo = <<>>
  /\ walk.data.hasLoginForm
  /\ Len(C22_Forms(<<walk.doc>>)) = 3
  /\ ~C10_Qualifies(C22_Forms(<<walk.doc>>)[1])
  /\ ~C10_Qualifies(C22_Forms(<<walk.doc>>)[3])

\* ====================================================================
\* Crawl invocations and the requests that arrive while they run

\* the invocations in flight for the record: started, not yet returned
C23_InFlight(id) ==
  {c \in CrawlIDs : crawls[c].urlID = id /\ crawls[c].pc \notin {"idle", "done"}}

\* C23: for any URL record, at most one crawl invocation is in flight at any
\* time, under every interleaving of start, stop, bulk-start and update
\* requests with the steps of the crawl goroutines.
C23_AtMostOneInFlight ==
  \A id \in DOMAIN urls : Cardinality(C23_InFlight(id)) <= 1

\* the record as an accepted stop leaves it
C24_Stopped(record) ==
  record.status = StatusQueued /\ record.errorMessage = "Crawling stopped by user"

\* C24: after an accepted stop, the status of the URL stays Queued with the
\* stop message until the next accepted start request: the crawl invocation
\* that was in flight when the stop arrived does not later overwrite the
\* status with Completed or Error.  Stated where no start request is made
\* after the one that started the invocation: a record that was stopped
\* stays stopped.
C24_StopHolds ==
  [][\A id \in DOMAIN urls : C24_Stopped(urls[id]) => C24_Stopped(urls'[id])]_vars

\* C25: in every reachable state, a URL whose status is Completed has an
\* empty error message and at least one CrawlResult row, and a URL whose
\* status is Error has a non-empty error message, after any interleaving
\* of start, stop, bulk-start, bulk-stop and update requests and crawl steps.
C25_StatusAndMessage ==
  \A id \in DOMAIN urls :
    /\ urls[id].status = StatusCompleted
         => /\ urls[id].errorMessage = ""
            /\ \E i \in 1..Len(crawlResults) : crawlResults[i].urlID = id
    /\ urls[id].status = StatusError => urls[id].errorMessage # ""

\* a record that is Completed after one of its two invocations had failed
\* and written Error, both invocations having returned
C25_Witness ==
  /\ urls[1].status = StatusCompleted
  /\ \A c \in 1..2 : crawls[c].pc = "done" /\ crawls[c].urlID = 1
  /\ \E c \in 1..2 : crawls[c].err # ""
  /\ \E c \in 1..2 : crawls[c].err = ""

\* C27: a crawl invocation changes only the status and the error message
\* of its URL record: no step of an invocation changes the URL string (or
\* the owner) of a record, so a URL string written by a successful UpdateURL
\* while the crawl is in flight is still there after the crawl has written
\* its final status.
C27_CrawlKeepsURLString ==
  [][crawls' # crawls
       => \A id \in DOMAIN urls : /\ urls'[id].url = urls[id].url
                                  /\ urls'[id].userID = urls[id].userID]_vars

\* ====================================================================
\* The records of several users

\* C28: after any sequence of CreateURL and UpdateURL requests, no user has
\* two non-deleted URL records with the same URL string.
C28_NoDuplicateURLs ==
  \A i, j \in DOMAIN urls :
    ( /\ i # j
      /\ urls[i].userID = urls[j].userID
      /\ ~urls[i].deleted /\ ~urls[j].deleted )
      => urls[i].url # urls[j].url

\* the records of other users than the one the requests are authenticated as
C29_Foreign == {id \in DOMAIN urls : urls[id].userID # RequestUser}

\* the step starts an invocation for the record
C29_Launches(id) ==
  \E c \in CrawlIDs : crawls'[c] # crawls[c] /\ crawls'[c].urlID = id

\* C29: a start, stop, bulk-start, bulk-stop, update or delete request
\* authenticated as one user never changes a URL record owned by another
\* user and never launches a crawl for it.  Every step is a request of
\* RequestUser, with ids of its own records, of the record of the other
\* owner and of no record.
C29_OtherOwnersUntouched ==
  [][\A id \in C29_Foreign :
       /\ id \in DOMAIN urls' /\ urls'[id] = urls[id]
       /\ ~C29_Launches(id)]_vars

\* requests have acted on the user's own records (one deleted, one marked
\* running, an invocation started) next to a running record of another
\* owner, and the last bulk stop found nothing to stop
C29_Witness ==
  /\ \E id \in C29_Foreign : urls[id].status = StatusRunning /\ ~urls[id].deleted
  /\ \E id \in DOMAIN urls \ C29_Foreign : urls[id].deleted
  /\ \E id \in DOMAIN urls \ C29_Foreign : ~urls[id].deleted /\ urls[id].status = StatusQueued
  /\ \E c \in CrawlIDs : crawls[c].urlID \in DOMAIN urls \ C29_Foreign
  /\ response = [handler |-> "BulkStopCrawl", code |-> StatusBadRequest]

\* the refresh endpoint rejects the token string
C30_RefreshRejects(tokenString) ==
  RefreshToken(tokenString)
    => response' = [handler |-> "RefreshToken", code |-> StatusUnauthorized]

\* AuthRequired rejects the requests that carry the token string as Bearer
\* token
C30_AuthRejects(tokenString) ==
  \E header \in {[scheme |-> S_bearerPrefix, token |-> tokenString]} :
    /\ AuthRequired(header).abort
    /\ \A id \in IDParams :
         Protected(header, GetURLStatus(ContextUserID(header), id)) => C19_Aborted

\* C30: the two token kinds are not interchangeable: the refresh endpoint
\* issues new tokens only for a token that was issued as a refresh token (an
\* unexpired access token presented there is rejected), and AuthRequired
\* admits only tokens issued as access tokens (a refresh token in the
\* Authorization header is rejected).
C30_TokenKindsNotInterchangeable ==
  [][/\ \A t \in AccessTokens : C30_RefreshRejects(t)
     /\ \A t \in RefreshTokens : C30_AuthRejects(t)]_vars

=============================================================================
